---- MODULE Spec2Model ----
(***************************************************************************)
(* A model of the LOOM personal assistant backend: the keyword classifier  *)
(* variants, the ChromaDB memory adapter, the AssistantAgent orchestrator  *)
(* (ai_assistant), the LoomAIOrchestrator of proper_main.py, the /chat     *)
(* handlers of start_service.py and simple_ai.py, and the /health          *)
(* endpoints.  Python strings are TLC strings; substring tests, lower()    *)
(* and the f-string formatting are computed on them as the code does.      *)
(***************************************************************************)
EXTENDS Naturals, Sequences, FiniteSets, TLC

VARIABLES
    collection,    \* ChromaDBManager.collection contents: the documents stored
    collectionOk,  \* ChromaDBManager.collection is not None
    agentOk,       \* AssistantAgent.agent_executor is not None
    now,           \* the wall clock read by datetime.now()
    req,           \* the request process_input is serving (NoReq when idle)
    resp,          \* the record the last finished process_input returned
    lastAdd,       \* history: the last collection.add call and what it met
    found,         \* the outcome of the last read of the store: search_memory,
                   \* get_recent_conversations or a statistics call
    toolObs,       \* the string the last agent tool call returned
    served,        \* number of requests (adapter calls, in SpecStore) accepted so far
    env,           \* ai_assistant: which integration settings the process has
    pTools,        \* proper_main: what the two rebindable Tool.func are bound to
    pReqs,         \* proper_main: the requests route_task is serving
    pCalls,        \* proper_main: the latest tool call an agent run made
    pExec,         \* proper_main: how LoomAIOrchestrator.agent_executor was left
    pStoreOk,      \* proper_main: memory_collection is not None
    pResp,         \* proper_main: the records route_task returned
    fIn,           \* the (message, context) a classifier or /chat handler is given
    fOut,          \* what it returned
    hEnv,          \* what the process found at start-up (see SpecHealth)
    hOut           \* the services object of the /health body returned

varsA == <<collection, collectionOk, agentOk, now, req, resp, lastAdd, found,
           toolObs, served, env>>
varsP == <<pTools, pReqs, pCalls, pExec, pStoreOk, pResp>>
varsF == <<fIn, fOut>>
varsH == <<hEnv, hOut>>
vars == <<varsA, varsP, varsF, varsH>>

None == "<none>"
\* The absent value of a variable that otherwise holds a record.
Nil == [nil |-> TRUE]

(***************************************************************************)
(* Bounds of the model.                                                    *)
(***************************************************************************)
MaxUsers == 2
MaxClock == 1
MaxRequests == 1
MaxWrites == 3
MaxWords == 2

Users == 1..MaxUsers

(***************************************************************************)
(* Python string operations.                                               *)
(***************************************************************************)
Contains(s, kw) ==
    \E i \in 1..(Len(s) + 1 - Len(kw)) : SubSeq(s, i, i + Len(kw) - 1) = kw

LowerChar(c) ==
    CASE c = "A" -> "a" [] c = "B" -> "b" [] c = "C" -> "c" [] c = "D" -> "d"
      [] c = "E" -> "e" [] c = "F" -> "f" [] c = "G" -> "g" [] c = "H" -> "h"
      [] c = "I" -> "i" [] c = "J" -> "j" [] c = "K" -> "k" [] c = "L" -> "l"
      [] c = "M" -> "m" [] c = "N" -> "n" [] c = "O" -> "o" [] c = "P" -> "p"
      [] c = "Q" -> "q" [] c = "R" -> "r" [] c = "S" -> "s" [] c = "T" -> "t"
      [] c = "U" -> "u" [] c = "V" -> "v" [] c = "W" -> "w" [] c = "X" -> "x"
      [] c = "Y" -> "y" [] c = "Z" -> "z" [] OTHER -> c

\* A string left in the case it was written in.
SameCase(s) == s

RECURSIVE Lower(_)
Lower(s) ==
    IF Len(s) = 0 THEN ""
    ELSE LowerChar(SubSeq(s, 1, 1)) \o Lower(SubSeq(s, 2, Len(s)))

AnyIn(s, kws) == \E kw \in kws : Contains(s, kw)

(***************************************************************************)
(* The intent classifier and its variants.                                 *)
(***************************************************************************)
\* The classifier with its final else branch missing.
DetectNoDefault(message) ==
    LET m == Lower(message) IN
    IF AnyIn(m, {"favorite", "prefer", "like"}) THEN "preference_query"
    ELSE IF AnyIn(m, {"weather", "news", "search"}) THEN "web_search"
    ELSE IF AnyIn(m, {"calendar", "schedule", "event"}) THEN "calendar_management"
    ELSE IF AnyIn(m, {"email", "mail"}) THEN "email_management"
    ELSE IF AnyIn(m, {"image", "photo", "picture"}) THEN "image_analysis"
    ELSE None

\* The classifier without its message.lower() normalisation.
DetectCaseSensitive(message) ==
    LET m == message IN
    IF AnyIn(m, {"favorite", "prefer", "like"}) THEN "preference_query"
    ELSE IF AnyIn(m, {"weather", "news", "search"}) THEN "web_search"
    ELSE IF AnyIn(m, {"calendar", "schedule", "event"}) THEN "calendar_management"
    ELSE IF AnyIn(m, {"email", "mail"}) THEN "email_management"
    ELSE IF AnyIn(m, {"image", "photo", "picture"}) THEN "image_analysis"
    ELSE "general_chat"

\* The classifier with the web-search test ahead of the preference test.
DetectWebFirst(message) ==
    LET m == Lower(message) IN
    IF AnyIn(m, {"weather", "news", "search"}) THEN "web_search"
    ELSE IF AnyIn(m, {"favorite", "prefer", "like"}) THEN "preference_query"
    ELSE IF AnyIn(m, {"calendar", "schedule", "event"}) THEN "calendar_management"
    ELSE IF AnyIn(m, {"email", "mail"}) THEN "email_management"
    ELSE IF AnyIn(m, {"image", "photo", "picture"}) THEN "image_analysis"
    ELSE "general_chat"

AgentDetectTaskType(message) ==
    LET m == Lower(message) IN
    IF AnyIn(m, {"favorite", "prefer", "like"}) THEN "preference_query"
    ELSE IF AnyIn(m, {"weather", "news", "search"}) THEN "web_search"
    ELSE IF AnyIn(m, {"calendar", "schedule", "event"}) THEN "calendar_management"
    ELSE IF AnyIn(m, {"email", "mail"}) THEN "email_management"
    ELSE IF AnyIn(m, {"image", "photo", "picture"}) THEN "image_analysis"
    ELSE "general_chat"

ProperDetectTaskType(message) ==
    LET m == Lower(message) IN
    IF AnyIn(m, {"favorite", "prefer", "like"}) THEN "preference_query"
    ELSE IF AnyIn(m, {"weather", "news", "search"}) THEN "web_search"
    ELSE IF AnyIn(m, {"calendar", "schedule", "event"}) THEN "calendar_management"
    ELSE IF AnyIn(m, {"email", "mail"}) THEN "email_management"
    ELSE IF AnyIn(m, {"image", "photo", "picture"}) THEN "image_analysis"
    ELSE IF AnyIn(m, {"remember", "memory", "recall"}) THEN "memory_retrieval"
    ELSE "general_chat"

\* main.py's classifier without its image test.
MainDetectNoImage(message) ==
    LET m == Lower(message) IN
    IF AnyIn(m, {"search", "find", "look up", "research"}) THEN "web_search"
    ELSE IF AnyIn(m, {"schedule", "calendar", "meeting", "appointment"}) THEN "calendar"
    ELSE IF AnyIn(m, {"email", "send", "message", "mail"}) THEN "email"
    ELSE "general_chat"

MainDetectTaskType(message) ==
    LET m == Lower(message) IN
    IF AnyIn(m, {"search", "find", "look up", "research"}) THEN "web_search"
    ELSE IF AnyIn(m, {"schedule", "calendar", "meeting", "appointment"}) THEN "calendar"
    ELSE IF AnyIn(m, {"email", "send", "message", "mail"}) THEN "email"
    ELSE IF AnyIn(m, {"image", "photo", "picture", "analyze"}) THEN "image_analysis"
    ELSE "general_chat"

SimpleDetectTaskType(message) ==
    LET m == Lower(message) IN
    IF AnyIn(m, {"search", "find", "look up", "research"}) THEN "web_search"
    ELSE IF AnyIn(m, {"schedule", "calendar", "meeting", "appointment"}) THEN "calendar"
    ELSE IF AnyIn(m, {"email", "send", "message", "mail"}) THEN "email"
    ELSE IF AnyIn(m, {"image", "photo", "picture", "analyze"}) THEN "image_analysis"
    ELSE "general_chat"

(***************************************************************************)
(* More string operations: str.find, str.split, int().                     *)
(***************************************************************************)
IndexOf(s, kw) ==
    IF Contains(s, kw)
    THEN CHOOSE i \in 1..(Len(s) + 1 - Len(kw)) :
            /\ SubSeq(s, i, i + Len(kw) - 1) = kw
            /\ \A j \in 1..(i - 1) : SubSeq(s, j, j + Len(kw) - 1) # kw
    ELSE 0

RECURSIVE SplitStr(_, _)
SplitStr(s, sep) ==
    IF ~Contains(s, sep) THEN <<s>>
    ELSE LET i == IndexOf(s, sep) IN
         <<SubSeq(s, 1, i - 1)>> \o SplitStr(SubSeq(s, i + Len(sep), Len(s)), sep)

Digits == {"0", "1", "2", "3", "4", "5", "6", "7", "8", "9"}

\* int(s) succeeds on a non-empty run of digits (the ids are non-negative).
IntParses(s) == Len(s) > 0 /\ \A i \in 1..Len(s) : SubSeq(s, i, i) \in Digits

(***************************************************************************)
(* User contexts: a dict whose "preferences" entry is a list of            *)
(* {key, value} records.                                                   *)
(***************************************************************************)
MkCtx(prefs, media, notes) == [preferences |-> prefs, media |-> media, notes |-> notes]
EmptyCtx == MkCtx(<<>>, <<>>, <<>>)
AlbumPref == [key |-> "favorite_album", value |-> "Abbey Road"]
TvPref == [key |-> "favorite_tv_series", value |-> "tv series: Breaking Bad"]
PrefCtx == MkCtx(<<AlbumPref, TvPref>>, <<>>, <<>>)

\* dict.get(field, []): an absent key and an empty list read the same.
CtxGet(ctx, field) == ctx[field]

RECURSIVE JoinStr(_, _)
JoinStr(seq, sep) ==
    IF Len(seq) = 0 THEN ""
    ELSE IF Len(seq) = 1 THEN seq[1]
    ELSE seq[1] \o sep \o JoinStr(Tail(seq), sep)

JsonPref(p) == "{\"key\": \"" \o p.key \o "\", \"value\": \"" \o p.value \o "\"}"

JsonDumps(ctx) ==
    "{\"preferences\": ["
    \o JoinStr([i \in 1..Len(ctx.preferences) |-> JsonPref(ctx.preferences[i])], ", ")
    \o "]}"

\* The contexts requests carry in the orchestrator model.
Contexts == {EmptyCtx, PrefCtx}

\* Contexts whose preference values hold the characters the encoding of
\* _direct_tool_routing uses as delimiters.
PipeCtx == MkCtx(<<[key |-> "favorite_genre", value |-> "Rock | Jazz"]>>, <<>>, <<>>)
QueryCtx == MkCtx(<<[key |-> "favorite_album", value |-> "my query: x"]>>, <<>>, <<>>)
JsonContexts == Contexts \cup {PipeCtx, QueryCtx}

\* json.loads on a text json.dumps produced gives the value back; any other
\* text met here is a fragment of one and raises.
JsonParses(text) == \E c \in JsonContexts : JsonDumps(c) = text
JsonLoads(text) == CHOOSE c \in JsonContexts : JsonDumps(c) = text

(***************************************************************************)
(* Outcomes of an outbound call: it returns, or raises with a message.     *)
(***************************************************************************)
ExcMsg == "connection refused"
Outcomes == {None, ExcMsg}

(***************************************************************************)
(* tools/web_search.py, tools/google_calendar.py, tools/email_reader.py    *)
(***************************************************************************)
\* WebSearchTool.search: key is TAVILY_API_KEY being set, e the outcome of
\* requests.post.
WebSearch(query, key, e) ==
    IF ~key THEN "Web search not available. Query was: " \o query
    ELSE IF e # None THEN "Web search error: " \o e
    ELSE "Web search results for '" \o query \o "':"

\* requests.post is reached only with a key.
WebSearchOutbound(key) == key

\* A calendar method that goes to the API whether or not a service was built.
CalendarCallUnguarded(service, e, failText, okText) ==
    IF e # None THEN failText \o e ELSE okText

\* GoogleCalendarTool.list_events / create_event / check_availability share
\* one shape: no service, else the API call and its failure string.
CalendarCall(service, e, failText, okText) ==
    IF ~service THEN "Google Calendar not available. Please configure credentials."
    ELSE IF e # None THEN failText \o e
    ELSE okText

\* GoogleCalendarTool.manage_calendar: service is "the Calendar service was
\* built", e the outcome of the API call.
ManageCalendar(request, service, e) ==
    LET r == Lower(request) IN
    IF Contains(r, "list") \/ Contains(r, "show")
    THEN CalendarCall(service, e, "Failed to list events: ", "Upcoming events (7 days):")
    ELSE IF Contains(r, "create") \/ Contains(r, "add")
    THEN CalendarCall(service, e, "Failed to create event: ", "Event created: Parsed Event")
    ELSE IF Contains(r, "update") \/ Contains(r, "modify")
    THEN "Event update functionality not fully implemented yet."
    ELSE IF Contains(r, "delete") \/ Contains(r, "remove")
    THEN "Event deletion functionality not fully implemented yet."
    ELSE IF Contains(r, "free") \/ Contains(r, "available")
    THEN CalendarCall(service, e, "Failed to check availability: ", "You're completely free today!")
    ELSE CalendarCall(service, e, "Failed to list events: ", "Upcoming events (7 days):")

\* The request ends in update_event or delete_event, which are stubs.
CalendarStub(request) ==
    LET r == Lower(request) IN
    /\ ~AnyIn(r, {"list", "show", "create", "add"})
    /\ AnyIn(r, {"update", "modify", "delete", "remove"})

\* self.service...execute() is reached only with a service, in the methods
\* that are not stubs.
CalendarOutbound(request, service) == service /\ ~CalendarStub(request)

EmailCall(service, e, failText, okText) ==
    IF ~service THEN "Gmail not available. Please configure credentials."
    ELSE IF e # None THEN failText \o e
    ELSE okText

\* EmailReaderTool.read_emails.
ReadEmails(request, service, e) ==
    LET r == Lower(request) IN
    IF Contains(r, "unread")
    THEN EmailCall(service, e, "Failed to get unread emails: ", "No unread emails found.")
    ELSE IF Contains(r, "recent") \/ Contains(r, "latest")
    THEN EmailCall(service, e, "Failed to get recent emails: ", "No recent emails found.")
    ELSE IF Contains(r, "search")
    THEN EmailCall(service, e, "Failed to search emails: ", "No emails found matching: ")
    ELSE IF Contains(r, "important")
    THEN EmailCall(service, e, "Failed to get important emails: ", "No important emails found.")
    ELSE IF Contains(r, "summary")
    THEN EmailCall(service, e, "Failed to get email summary: ", "Email Summary:")
    ELSE EmailCall(service, e, "Failed to get recent emails: ", "No recent emails found.")

\* Every branch of read_emails goes to the API when there is a service.
EmailOutbound(service) == service

(***************************************************************************)
(* str.replace and str.strip.                                              *)
(***************************************************************************)
RECURSIVE Replace(_, _, _)
Replace(s, old, new) ==
    IF ~Contains(s, old) THEN s
    ELSE LET i == IndexOf(s, old) IN
         SubSeq(s, 1, i - 1) \o new \o Replace(SubSeq(s, i + Len(old), Len(s)), old, new)

RECURSIVE Strip(_)
Strip(s) ==
    IF Len(s) = 0 THEN s
    ELSE IF SubSeq(s, 1, 1) = " " THEN Strip(SubSeq(s, 2, Len(s)))
    ELSE IF SubSeq(s, Len(s), Len(s)) = " " THEN Strip(SubSeq(s, 1, Len(s) - 1))
    ELSE s

\* next((p for p in preferences if Test(p)), None): the index of the first
\* match, 0 for None.
FirstIndex(prefs, Test(_)) ==
    IF \E i \in 1..Len(prefs) : Test(prefs[i])
    THEN CHOOSE i \in 1..Len(prefs) :
            Test(prefs[i]) /\ \A j \in 1..(i - 1) : ~Test(prefs[j])
    ELSE 0

(***************************************************************************)
(* AssistantAgent._analyze_preferences                                     *)
(***************************************************************************)
\* An analyzer whose summary does not count the records.
AgentPreferenceFixedCount(actual_query, context) ==
    IF Len(CtxGet(context, "preferences")) = 0
    THEN "I don't have information about your preferences yet."
    ELSE "I found 1 preferences in your profile."

\* The answer computed from the parsed query and context.
AgentPreferenceAnswer(actual_query, context) ==
    LET preferences == CtxGet(context, "preferences")
        q == Lower(actual_query)
        IsTv(p) == Contains(p.key, "tv_series") \/ Contains(Lower(p.value), "tv series")
        IsSingers(p) == Contains(p.key, "favorite_singers") \/ Contains(p.value, "singers:")
        IsAlbum(p) == \/ Contains(p.key, "favorite_album")
                      \/ Contains(Lower(p.value), "my beautiful dark twisted fantasy")
        tv == FirstIndex(preferences, IsTv)
        singers == FirstIndex(preferences, IsSingers)
        album == FirstIndex(preferences, IsAlbum)
    IN
    IF Len(preferences) = 0
    THEN "I don't have information about your preferences yet."
    ELSE IF (Contains(q, "tv series") \/ Contains(q, "series")) /\ tv # 0
    THEN "Your favorite TV series is: **"
         \o Strip(Replace(preferences[tv].value, "tv series: ", "")) \o "**"
    ELSE IF Contains(q, "singers") /\ ~Contains(q, "singer?") /\ singers # 0
    THEN "Your favorite singers are: **"
         \o Strip(Replace(preferences[singers].value, "singers: ", "")) \o "**"
    ELSE IF Contains(q, "singer?")
    THEN "I don't know your favorite singer."
    ELSE IF Contains(q, "album") /\ album # 0
    THEN "Your favorite album is: **My Beautiful Dark Twisted Fantasy by Kanye West**"
    ELSE "I found " \o ToString(Len(preferences)) \o " preferences in your profile."

\* The loop over query.split("|"): st is [query, context, error].
RECURSIVE AgentParseParts(_, _)
AgentParseParts(parts, st) ==
    IF Len(parts) = 0 \/ st.error # None THEN st
    ELSE LET part == Head(parts) IN
         AgentParseParts(Tail(parts),
            IF Contains(part, "user_id:")
            THEN LET t == SplitStr(part, "user_id:")[2] IN
                 IF IntParses(t) THEN st
                 ELSE [st EXCEPT !.error =
                        "invalid literal for int() with base 10: '" \o t \o "'"]
            ELSE IF Contains(part, "query:")
            THEN [st EXCEPT !.query = SplitStr(part, "query:")[2]]
            ELSE IF Contains(part, "context:")
            THEN LET t == SplitStr(part, "context:")[2] IN
                 IF JsonParses(t) THEN [st EXCEPT !.context = JsonLoads(t)] ELSE st
            ELSE st)

AgentAnalyzePreferences(query) ==
    LET st == AgentParseParts(SplitStr(query, "|"),
                              [query |-> query, context |-> EmptyCtx, error |-> None])
    IN IF st.error # None THEN "Preference analysis failed: " \o st.error
       ELSE AgentPreferenceAnswer(st.query, st.context)

\* The string _direct_tool_routing hands to _analyze_preferences.
DirectEncode(user_id, message, user_context) ==
    "user_id:" \o ToString(user_id) \o "|query:" \o message
    \o "|context:" \o JsonDumps(user_context)

(***************************************************************************)
(* memory/chromadb_utils.py: ChromaDBManager over one Chroma collection.   *)
(***************************************************************************)
NResults == 5

\* An id built from the kind and the clock reading only.
DocIdNoUser(prefix, user_id, ts) == prefix \o "_" \o ToString(ts)

DocId(prefix, user_id, ts) == prefix \o "_" \o ToString(user_id) \o "_" \o ToString(ts)

HasId(coll, id) == \E i \in 1..Len(coll) : coll[i].id = id

\* An add that writes the document and raises afterwards.
ChromaAddThenRaise(coll, doc, e) ==
    IF HasId(coll, doc.id) THEN coll ELSE Append(coll, doc)

\* collection.add: e is the outcome of the call.  A raising call and an id the
\* collection already holds both leave the collection as it was.
ChromaAdd(coll, doc, e) ==
    IF e # None \/ HasId(coll, doc.id) THEN coll ELSE Append(coll, doc)

\* The documents, with the metadata the operations modelled here read; the
\* text payload (document, response, tools_used, the counts) is left out.
ConversationDoc(user_id, message, response, task_type, tools_used, clock) ==
    [id |-> DocId("user", user_id, clock),
     user_id |-> user_id, timestamp |-> clock, type |-> None,
     task_type |-> task_type, message |-> message]

ContextDoc(user_id, context, clock) ==
    [id |-> DocId("context", user_id, clock),
     user_id |-> user_id, timestamp |-> clock, type |-> "user_context",
     task_type |-> None, message |-> None]

\* store_conversation / store_user_context: nothing is attempted without a
\* collection; an exception of add is caught and printed.
StoreDoc(coll, ok, doc, e) == IF ~ok THEN coll ELSE ChromaAdd(coll, doc, e)

\* What a collection.add call used and which stored document, if any, already
\* carried its id.
AddRecord(coll, doc, e) ==
    [id |-> doc.id, user_id |-> doc.user_id, type |-> doc.type,
     timestamp |-> doc.timestamp,
     stored |-> (e = None /\ ~HasId(coll, doc.id)),
     clash |-> IF HasId(coll, doc.id)
               THEN CHOOSE d \in {coll[i] : i \in 1..Len(coll)} : d.id = doc.id
               ELSE Nil]

Min(a, b) == IF a < b THEN a ELSE b

\* collection.query(query_texts, n_results, where={"user_id": user_id}): the
\* store answers with the n_results nearest of the matching documents; which
\* ones are nearest is the store's business, so every choice is possible.
Matching(coll, user_id) == {coll[i] : i \in {j \in 1..Len(coll) : coll[j].user_id = user_id}}

QueryAnswers(coll, user_id, n_results) ==
    LET m == Matching(coll, user_id) IN
    {r \in SUBSET m : Cardinality(r) = Min(n_results, Cardinality(m))}

\* A query that asks for one result fewer than the caller's limit.
SearchMemoryShort(coll, ok, user_id, n_results, e) ==
    IF ~ok \/ e # None THEN {{}} ELSE QueryAnswers(coll, user_id, n_results - 1)

\* A query sent without the where filter on user_id.
SearchMemoryNoWhere(coll, ok, user_id, n_results, e) ==
    IF ~ok \/ e # None THEN {{}}
    ELSE LET all == {coll[i] : i \in 1..Len(coll)}
         IN {r \in SUBSET all : Cardinality(r) = Min(n_results, Cardinality(all))}

\* search_memory: [] without a collection or when query raises.
SearchMemoryResults(coll, ok, user_id, n_results, e) ==
    IF ~ok \/ e # None THEN {{}} ELSE QueryAnswers(coll, user_id, n_results)

(***************************************************************************)
(* The other components stay as constructed while one is exercised.        *)
(***************************************************************************)
IdleP ==
    /\ pTools = Nil /\ pReqs = <<>> /\ pCalls = Nil /\ pExec = None
    /\ pStoreOk = FALSE /\ pResp = <<>>
IdleF == fIn = Nil /\ fOut = Nil
IdleH == hEnv = Nil /\ hOut = Nil

(***************************************************************************)
(* agents/assistant_agent.py: AssistantAgent.process_input, one request at *)
(* a time (the handler never yields to the event loop), in the steps       *)
(* receive, store context, classify, agent or fallback, persist, respond.  *)
(***************************************************************************)
NoReq == [pc |-> "idle"]

\* The (message, user_context) pairs requests are drawn from: one message
\* per classifier label, the preference question with and without stored
\* preferences.
Inputs == {<<"What is my favorite album?", PrefCtx>>,
           <<"What is my favorite album?", EmptyCtx>>,
           <<"weather in Paris", EmptyCtx>>,
           <<"show my calendar", EmptyCtx>>,
           <<"latest email", EmptyCtx>>,
           <<"describe my photo", EmptyCtx>>,
           <<"hello", EmptyCtx>>}

\* What the agent answers when it finishes.
AgentOutput == "agent answer"

\* A request that goes to the conversation write first.
NewReqPersistFirst(u, m, c) ==
    [pc |-> "persist", user_id |-> u, message |-> m, ctx |-> c,
     task_type |-> None, response |-> None, tools_used |-> <<>>,
     confidence |-> 0, path |-> None, wrote |-> FALSE, toolErr |-> None,
     calls |-> 0]

NewReq(u, m, c) ==
    [pc |-> "store_context", user_id |-> u, message |-> m, ctx |-> c,
     task_type |-> None, response |-> None, tools_used |-> <<>>,
     confidence |-> 0, path |-> None, wrote |-> FALSE, toolErr |-> None,
     calls |-> 0]

Receive(u, m, c) ==
    /\ req = NoReq
    /\ served < MaxRequests
    /\ req' = NewReq(u, m, c)
    /\ served' = served + 1
    /\ resp' = Nil
    /\ UNCHANGED <<collection, collectionOk, agentOk, now, lastAdd, found,
                   toolObs, env>>
    /\ UNCHANGED <<varsP, varsF, varsH>>

\* await self.memory_manager.store_user_context(user_id, user_context)
StoreContextStep(e) ==
    /\ req.pc = "store_context"
    /\ collection' = StoreDoc(collection, collectionOk,
                              ContextDoc(req.user_id, req.ctx, now), e)
    /\ req' = [req EXCEPT !.pc = "classify"]
    /\ UNCHANGED <<collectionOk, agentOk, now, resp, lastAdd, found, toolObs,
                   served, env>>
    /\ UNCHANGED <<varsP, varsF, varsH>>

\* task_type = self._detect_task_type(message); if self.agent_executor: ...
ClassifyStep ==
    /\ req.pc = "classify"
    /\ req' = [req EXCEPT !.task_type = AgentDetectTaskType(req.message),
                          !.pc = IF agentOk THEN "agent" ELSE "fallback"]
    /\ UNCHANGED <<collection, collectionOk, agentOk, now, resp, lastAdd, found,
                   toolObs, served, env>>
    /\ UNCHANGED <<varsP, varsF, varsH>>

\* repr of the result list, as far as it is read here.
ReprResults(results) == IF results = {} THEN "[]" ELSE "[{'content': ...}]"

\* AssistantAgent._search_memory, the memory_search tool: the user id is the
\* literal 1, and search_memory has already swallowed any exception.
SearchToolUser == 1
AgentSearchMemory(results) == "Memory search results: " \o ReprResults(results)

\* The agent, while it runs, calls its memory_search tool; e is the outcome
\* of the store's query.
AgentToolCall(e) ==
    /\ req.pc = "agent"
    /\ req.calls = 0
    /\ \E r \in SearchMemoryResults(collection, collectionOk, SearchToolUser, NResults, e) :
          toolObs' = [tool |-> "memory_search", user_id |-> SearchToolUser,
                      results |-> r,
                      raised |-> IF collectionOk THEN e ELSE None,
                      text |-> AgentSearchMemory(r)]
    /\ req' = [req EXCEPT !.calls = 1]
    /\ UNCHANGED <<collection, collectionOk, agentOk, now, resp, lastAdd, found,
                   served, env>>
    /\ UNCHANGED <<varsP, varsF, varsH>>

\* An orchestrator that invokes the agent again when it raised.
AgentInvokedAgain(e) ==
    /\ req.pc = "agent"
    /\ req' = IF e = None
              THEN [req EXCEPT !.response = AgentOutput,
                               !.tools_used = <<"langchain_agent", "ollama">>,
                               !.confidence = 9, !.path = "agent",
                               !.pc = "persist"]
              ELSE [req EXCEPT !.calls = 0]
    /\ toolObs' = Nil
    /\ UNCHANGED <<collection, collectionOk, agentOk, now, resp, lastAdd, found,
                   served, env>>
    /\ UNCHANGED <<varsP, varsF, varsH>>

\* self.agent_executor.invoke returns (e = None) or raises.
AgentReturn(e) ==
    /\ req.pc = "agent"
    /\ req' = IF e = None
              THEN [req EXCEPT !.response = AgentOutput,
                               !.tools_used = <<"langchain_agent", "ollama">>,
                               !.confidence = 9, !.path = "agent",
                               !.pc = "persist"]
              ELSE [req EXCEPT !.pc = "fallback"]
    /\ toolObs' = Nil
    /\ UNCHANGED <<collection, collectionOk, agentOk, now, resp, lastAdd, found,
                   served, env>>
    /\ UNCHANGED <<varsP, varsF, varsH>>

\* _direct_tool_routing up to the store: service is "the Google service was
\* built" (only with credentials), e the outcome of the tool's outbound call.
DirectResponse(r, tavily, service, e) ==
    IF r.task_type = "preference_query"
    THEN AgentAnalyzePreferences(DirectEncode(r.user_id, r.message, r.ctx))
    ELSE IF r.task_type = "web_search" THEN WebSearch(r.message, tavily, e)
    ELSE IF r.task_type = "calendar_management" THEN ManageCalendar(r.message, service, e)
    ELSE IF r.task_type = "email_management" THEN ReadEmails(r.message, service, e)
    ELSE "I'm your Personal AI Assistant. How can I help you today?"

DirectTools(task_type) ==
    IF task_type = "preference_query" THEN <<"preference_analyzer">>
    ELSE IF task_type = "web_search" THEN <<"web_search">>
    ELSE IF task_type = "calendar_management" THEN <<"calendar_management">>
    ELSE IF task_type = "email_management" THEN <<"email_reader">>
    ELSE <<"general_response">>

\* History: the tool of this label made its outbound call and the call raised.
DirectRaised(r, tavily, service, e) ==
    /\ e # None
    /\ \/ r.task_type = "web_search" /\ WebSearchOutbound(tavily)
       \/ r.task_type = "calendar_management" /\ CalendarOutbound(r.message, service)
       \/ r.task_type = "email_management" /\ EmailOutbound(service)

FallbackStep(service, e) ==
    /\ req.pc = "fallback"
    /\ service => env.google
    /\ req' = [req EXCEPT !.response = DirectResponse(req, env.tavily, service, e),
                          !.tools_used = DirectTools(req.task_type),
                          !.confidence = 8, !.path = "fallback",
                          !.toolErr = IF DirectRaised(req, env.tavily, service, e)
                                      THEN e ELSE None,
                          !.pc = "persist"]
    /\ UNCHANGED <<collection, collectionOk, agentOk, now, resp, lastAdd, found,
                   toolObs, served, env>>
    /\ UNCHANGED <<varsP, varsF, varsH>>

\* await self.memory_manager.store_conversation(...); the record built next
\* carries "memory_updated": True on both paths.
PersistStep(e) ==
    /\ req.pc = "persist"
    /\ LET after == StoreDoc(collection, collectionOk,
                             ConversationDoc(req.user_id, req.message, req.response,
                                             req.task_type, req.tools_used, now), e)
       IN /\ collection' = after
          /\ req' = [req EXCEPT !.wrote = (after # collection), !.pc = "respond"]
    /\ UNCHANGED <<collectionOk, agentOk, now, resp, lastAdd, found, toolObs,
                   served, env>>
    /\ UNCHANGED <<varsP, varsF, varsH>>

AgentMemoryUpdated == TRUE

ResponseRecord(r) ==
    [response |-> r.response, confidence |-> r.confidence,
     task_type |-> r.task_type, memory_updated |-> AgentMemoryUpdated,
     tools_used |-> r.tools_used]

\* return {...}: resp keeps the record and, as history, how it came about.
Respond ==
    /\ req.pc = "respond"
    /\ resp' = [record |-> ResponseRecord(req), user_id |-> req.user_id,
                message |-> req.message, path |-> req.path, wrote |-> req.wrote,
                toolErr |-> req.toolErr]
    /\ req' = NoReq
    /\ UNCHANGED <<collection, collectionOk, agentOk, now, lastAdd, found,
                   toolObs, served, env>>
    /\ UNCHANGED <<varsP, varsF, varsH>>

\* Time passes; it shows only at the next clock read, so the clock is moved
\* right before the steps that read it.
Tick ==
    /\ now < MaxClock
    /\ req.pc \in {"store_context", "persist"}
    /\ now' = now + 1
    /\ UNCHANGED <<collection, collectionOk, agentOk, req, resp, lastAdd, found,
                   toolObs, served, env>>
    /\ UNCHANGED <<varsP, varsF, varsH>>

Init ==
    /\ collection = <<>>
    /\ collectionOk \in BOOLEAN
    /\ agentOk \in BOOLEAN
    /\ now = 0
    /\ req = NoReq /\ resp = Nil /\ lastAdd = Nil /\ found = Nil
    /\ toolObs = Nil /\ served = 0
    /\ env \in [tavily : BOOLEAN, google : BOOLEAN]
    /\ IdleP /\ IdleF /\ IdleH

Next ==
    \/ \E u \in Users, i \in Inputs : Receive(u, i[1], i[2])
    \/ \E e \in Outcomes : StoreContextStep(e)
    \/ ClassifyStep
    \/ \E e \in Outcomes : AgentToolCall(e)
    \/ \E e \in Outcomes : AgentReturn(e)
    \/ \E service \in BOOLEAN, e \in Outcomes : FallbackStep(service, e)
    \/ \E e \in Outcomes : PersistStep(e)
    \/ Respond
    \/ Tick

Spec == Init /\ [][Next]_vars

\* process_input again, over two requests only: the preference question with
\* stored preferences and a greeting.  The order of its steps is the same
\* for every message.
OrderInputs == {<<"What is my favorite album?", PrefCtx>>, <<"hello", EmptyCtx>>}

NextOrder ==
    \/ \E u \in Users, i \in OrderInputs : Receive(u, i[1], i[2])
    \/ \E e \in Outcomes : StoreContextStep(e)
    \/ ClassifyStep
    \/ \E e \in Outcomes : AgentToolCall(e)
    \/ \E e \in Outcomes : AgentReturn(e)
    \/ \E service \in BOOLEAN, e \in Outcomes : FallbackStep(service, e)
    \/ \E e \in Outcomes : PersistStep(e)
    \/ Respond
    \/ Tick

SpecOrder == Init /\ [][NextOrder]_vars

(***************************************************************************)
(* process_input under the assumption that every call it awaits comes back:*)
(* the store calls, the agent invocation and the tool of the direct        *)
(* routing return or raise, and the handler itself runs on.  Receiving a   *)
(* request, the passing of time and the agent's own tool calls are not     *)
(* forced.                                                                 *)
(***************************************************************************)
InitLive ==
    /\ collection = <<>>
    /\ collectionOk \in BOOLEAN
    /\ agentOk \in BOOLEAN
    /\ now = 0
    /\ req = NoReq /\ resp = Nil /\ lastAdd = Nil /\ found = Nil
    /\ toolObs = Nil /\ served = 0
    /\ env = [tavily |-> FALSE, google |-> FALSE]
    /\ IdleP /\ IdleF /\ IdleH

OutboundReturns ==
    /\ WF_vars(\E e \in Outcomes : StoreContextStep(e))
    /\ WF_vars(ClassifyStep)
    /\ WF_vars(\E e \in Outcomes : AgentReturn(e))
    /\ WF_vars(\E service \in BOOLEAN, e \in Outcomes : FallbackStep(service, e))
    /\ WF_vars(\E e \in Outcomes : PersistStep(e))
    /\ WF_vars(Respond)

\* The requests (user_id, message, user_context): one short message for each
\* tool of the direct routing that makes an outbound call, and a greeting.
LiveInputs == {<<1, "news", EmptyCtx>>, <<1, "event", EmptyCtx>>,
               <<1, "mail", EmptyCtx>>, <<2, "hello", EmptyCtx>>}

NextLive ==
    \/ \E i \in LiveInputs : Receive(i[1], i[2], i[3])
    \/ \E e \in Outcomes : StoreContextStep(e)
    \/ ClassifyStep
    \/ \E e \in Outcomes : AgentToolCall(e)
    \/ \E e \in Outcomes : AgentReturn(e)
    \/ \E service \in BOOLEAN, e \in Outcomes : FallbackStep(service, e)
    \/ \E e \in Outcomes : PersistStep(e)
    \/ Respond
    \/ Tick

SpecLive == InitLive /\ [][NextLive]_vars /\ OutboundReturns

(***************************************************************************)
(* process_input serving several requests one after the other over the     *)
(* same collection.                                                        *)
(***************************************************************************)
MaxServed == 2

ReceiveNext(u, m, c) ==
    /\ req = NoReq
    /\ served < MaxServed
    /\ req' = NewReq(u, m, c)
    /\ served' = served + 1
    /\ resp' = Nil
    /\ UNCHANGED <<collection, collectionOk, agentOk, now, lastAdd, found,
                   toolObs, env>>
    /\ UNCHANGED <<varsP, varsF, varsH>>

NextSeries ==
    \/ \E u \in Users, i \in OrderInputs : ReceiveNext(u, i[1], i[2])
    \/ \E e \in Outcomes : StoreContextStep(e)
    \/ ClassifyStep
    \/ \E e \in Outcomes : AgentToolCall(e)
    \/ \E e \in Outcomes : AgentReturn(e)
    \/ \E service \in BOOLEAN, e \in Outcomes : FallbackStep(service, e)
    \/ \E e \in Outcomes : PersistStep(e)
    \/ Respond
    \/ Tick

SpecSeries == Init /\ [][NextSeries]_vars

(***************************************************************************)
(* The memory adapter on its own: any sequence of store_conversation,      *)
(* store_user_context and search_memory calls by any users, over a         *)
(* persistent collection that may hold documents of earlier runs.          *)
(***************************************************************************)
\* Documents user 1 stored in earlier runs, one per earlier clock value.
PriorDocs(n) ==
    [i \in 1..n |-> ConversationDoc(1, "hello", "hi", "general_chat",
                                    <<"general_response">>, i - 1)]

PriorCounts == {0, NResults - 1, NResults}

\* This run's clock starts after every earlier timestamp.
StartClock == NResults

StoreConversationCall(u, e) ==
    LET doc == ConversationDoc(u, "hello", "hi", "general_chat",
                               <<"general_response">>, now)
    IN /\ served < MaxWrites
       /\ found = Nil
       /\ collection' = StoreDoc(collection, collectionOk, doc, e)
       /\ lastAdd' = IF collectionOk THEN AddRecord(collection, doc, e)
                                     ELSE lastAdd
       /\ served' = served + 1
       /\ UNCHANGED <<collectionOk, agentOk, now, req, resp, found, toolObs, env>>
       /\ UNCHANGED <<varsP, varsF, varsH>>

StoreUserContextCall(u, e) ==
    LET doc == ContextDoc(u, EmptyCtx, now)
    IN /\ served < MaxWrites
       /\ found = Nil
       /\ collection' = StoreDoc(collection, collectionOk, doc, e)
       /\ lastAdd' = IF collectionOk THEN AddRecord(collection, doc, e)
                                     ELSE lastAdd
       /\ served' = served + 1
       /\ UNCHANGED <<collectionOk, agentOk, now, req, resp, found, toolObs, env>>
       /\ UNCHANGED <<varsP, varsF, varsH>>

\* search_memory(user_id, query, n_results); found keeps what it returned.
\* Which documents are nearest to the query text is the store's choice, so
\* the answer sets are the same for every text.
SearchMemoryCall(u, q, k, e) ==
    /\ found = Nil
    /\ \E r \in SearchMemoryResults(collection, collectionOk, u, k, e) :
          found' = [user_id |-> u, n_results |-> k, results |-> r,
                    raised |-> IF collectionOk THEN e ELSE None,
                    stored |-> Cardinality(Matching(collection, u))]
    /\ UNCHANGED <<collection, collectionOk, agentOk, now, req, resp, lastAdd,
                   toolObs, served, env>>
    /\ UNCHANGED <<varsP, varsF, varsH>>

\* The caller takes the result list.
SearchReturn ==
    /\ found # Nil
    /\ found' = Nil
    /\ UNCHANGED <<collection, collectionOk, agentOk, now, req, resp, lastAdd,
                   toolObs, served, env>>
    /\ UNCHANGED <<varsP, varsF, varsH>>

TickStore ==
    /\ now < StartClock + MaxClock
    /\ found = Nil
    /\ now' = now + 1
    /\ UNCHANGED <<collection, collectionOk, agentOk, req, resp, lastAdd, found,
                   toolObs, served, env>>
    /\ UNCHANGED <<varsP, varsF, varsH>>

InitStore ==
    /\ \E n \in PriorCounts : collection = PriorDocs(n)
    /\ collectionOk \in BOOLEAN
    /\ agentOk = FALSE
    /\ now = StartClock
    /\ req = NoReq /\ resp = Nil /\ lastAdd = Nil /\ found = Nil
    /\ toolObs = Nil /\ served = 0
    /\ env = [tavily |-> FALSE, google |-> FALSE]
    /\ IdleP /\ IdleF /\ IdleH

NextStore ==
    \/ \E u \in Users, e \in Outcomes : StoreConversationCall(u, e)
    \/ \E u \in Users, e \in Outcomes : StoreUserContextCall(u, e)
    \/ \E u \in Users, q \in {"", "album"}, k \in {1, NResults}, e \in Outcomes :
          SearchMemoryCall(u, q, k, e)
    \/ SearchReturn
    \/ TickStore

SpecStore == InitStore /\ [][NextStore]_vars

(***************************************************************************)
(* python_ai_service/proper_main.py: the module-level tools and            *)
(* LoomAIOrchestrator.route_task.  Requests run as coroutines on one event *)
(* loop; a request gives way to the others only where it awaits a thread   *)
(* (the agent run, the direct LLM call), so each action below is the code  *)
(* between two such points.                                                *)
(***************************************************************************)
\* The tool with no branch taken: its last return statement.
ProperPreferenceNoMatch(user_context, query) ==
    "No specific preference found for query: " \o query

\* preference_analysis_tool(user_context, query)
ProperPreferenceAnalysis(user_context, query) ==
    LET preferences == CtxGet(user_context, "preferences")
        q == Lower(query)
        IsTv(p) == Contains(p.key, "tv_series") \/ Contains(Lower(p.value), "tv series")
        IsSingers(p) == Contains(p.key, "favorite_singers") \/ Contains(p.value, "singers:")
        IsAlbum(p) == \/ Contains(p.key, "favorite_album")
                      \/ Contains(Lower(p.value), "my beautiful dark twisted fantasy")
        tv == FirstIndex(preferences, IsTv)
        singers == FirstIndex(preferences, IsSingers)
        album == FirstIndex(preferences, IsAlbum)
        PrefText(p) == p.key \o ": " \o p.value
    IN
    IF Len(preferences) = 0 THEN "No preferences found in user context"
    ELSE IF (Contains(q, "tv series") \/ Contains(q, "series")) /\ tv # 0
    THEN "Your favorite TV series is: "
         \o Strip(Replace(preferences[tv].value, "tv series: ", ""))
    ELSE IF Contains(q, "singers") /\ ~Contains(q, "singer?") /\ singers # 0
    THEN "Your favorite singers are: "
         \o Strip(Replace(preferences[singers].value, "singers: ", ""))
    ELSE IF Contains(q, "singer?") \/ Contains(q, "who is my favorite singer")
    THEN "I don't know your favorite singer."
    ELSE IF Contains(q, "album") /\ album # 0
    THEN "Your favorite album is: My Beautiful Dark Twisted Fantasy by Kanye West"
    ELSE IF Contains(q, "what do you know about me")
    THEN "Your preferences: "
         \o JoinStr([i \in 1..Len(preferences) |-> PrefText(preferences[i])], "; ")
    ELSE "No specific preference found for query: " \o query

\* web_search_tool(query): client is tavily_client, e the outcome of search.
ProperWebSearch(query, client, e) ==
    IF ~client THEN "Web search not available. Query was: " \o query
    ELSE IF e # None THEN "Web search failed: " \o e
    ELSE "Web search results for '" \o query \o "': "

\* generate_intelligent_fallback
ProperIntelligentFallback(task_type) ==
    IF task_type = "preference_query"
    THEN "I can help you with your preferences. What would you like to know about your stored data?"
    ELSE IF task_type = "web_search"
    THEN "I can help with web searches, but I'm currently focused on your personal LOOM data."
    ELSE IF task_type = "general_chat"
    THEN "I'm your LOOM AI assistant with vector memory capabilities. How can I help you today?"
    ELSE "I'm here to help with your LOOM data and preferences. What would you like to know?"

\* The tools list as the module builds it: memory_retrieval bound to user 1,
\* preference_analysis to {}.
DefaultToolUser == 1
DefaultTools == [preference_analysis |-> EmptyCtx, memory_retrieval |-> DefaultToolUser]

\* for tool in tools: tool.func = lambda x: ...(request.user_context / user_id, x)
RebindTools(user_id, user_context) ==
    [preference_analysis |-> user_context, memory_retrieval |-> user_id]

\* store_memory: the document of one interaction.
ProperDoc(user_id, content, task_type, clock) ==
    [id |-> DocId("user", user_id, clock),
     user_id |-> user_id, timestamp |-> clock, type |-> None,
     task_type |-> task_type, message |-> content]

\* AIResponse(...); confidence in hundredths.
ProperRecord(response, confidence, task_type, memory_updated, tools_used) ==
    [response |-> response, confidence |-> confidence, task_type |-> task_type,
     memory_updated |-> memory_updated, tools_used |-> tools_used]

\* The except branch at the end of route_task.
ProperErrorRecord(msg) ==
    ProperRecord("I encountered an error processing your request: " \o msg,
                 50, "error", FALSE, <<"error_handler">>)

\* reading self.agent_executor when initialize_agent never assigned it
NoExecutorMsg == "'LoomAIOrchestrator' object has no attribute 'agent_executor'"

\* What the LLM answers when called directly.
LlmOutput == " llm answer "

ProperInputs == {<<"What is my favorite album?", PrefCtx>>,
                 <<"weather in Paris", EmptyCtx>>,
                 <<"hello", EmptyCtx>>}

\* The two requests whose handling may overlap.
Slots == {"A", "B"}

\* An entry of pResp: the record sent, and as history whose it is and whether
\* store_memory added its document.
ProperSent(s, r, record, wrote) ==
    [slot |-> s, user_id |-> r.user_id, label |-> r.task_type,
     record |-> record, wrote |-> wrote]

\* route_task from its start to the agent run (or to the error record when
\* reading self.agent_executor raises).
RouteTaskStart(s, u, m, c) ==
    /\ pReqs[s] = NoReq
    /\ pTools' = RebindTools(u, c)
    /\ LET r == [pc |-> IF pExec = "ready" THEN "agent" ELSE "done",
                 user_id |-> u, message |-> m, ctx |-> c,
                 task_type |-> ProperDetectTaskType(m)]
       IN /\ pReqs' = [pReqs EXCEPT ![s] = r]
          /\ pResp' = IF pExec = "ready" THEN pResp
                      ELSE Append(pResp, ProperSent(s, r, ProperErrorRecord(NoExecutorMsg),
                                                    FALSE))
    /\ UNCHANGED <<pCalls, pExec, pStoreOk>>
    /\ UNCHANGED <<varsA, varsF, varsH>>

\* The agent, running in its thread for request s, calls one of the two
\* rebindable tools: tool.func is read at the time of the call.  pCalls keeps
\* the latest such call.
ProperToolCall(s, tool) ==
    /\ pReqs[s].pc = "agent"
    /\ pCalls' = [slot |-> s, tool |-> tool,
                  user_id |-> IF tool = "memory_retrieval"
                              THEN pTools.memory_retrieval ELSE 0,
                  ctx |-> IF tool = "preference_analysis"
                          THEN pTools.preference_analysis ELSE Nil]
    /\ UNCHANGED <<pTools, pReqs, pExec, pStoreOk, pResp>>
    /\ UNCHANGED <<varsA, varsF, varsH>>

\* agent_executor.invoke returns or raises (e); on a raise the direct routing
\* runs, with te the outcome of the web search; se is the outcome of the add
\* in store_memory.  A message of neither kind goes on to the direct LLM call.
ProperAgentReturn(s, e, te, se) ==
    /\ pReqs[s].pc = "agent"
    /\ pCalls' = IF pCalls # Nil /\ pCalls.slot = s THEN Nil ELSE pCalls
    /\ LET r == pReqs[s]
           m == Lower(r.message)
           pref == AnyIn(m, {"favorite", "prefer", "like"})
           web == AnyIn(m, {"weather", "news", "search"})
           response == IF e = None THEN AgentOutput
                       ELSE IF pref THEN ProperPreferenceAnalysis(r.ctx, r.message)
                       ELSE ProperWebSearch(r.message, env.tavily, te)
           confidence == IF e = None THEN 90 ELSE IF pref THEN 85 ELSE 80
           tools_used == IF e = None THEN <<"langchain_agent", "ollama">>
                         ELSE IF pref THEN <<"preference_analysis">>
                         ELSE <<"web_search">>
           after == StoreDoc(collection, pStoreOk,
                             ProperDoc(r.user_id, r.message, r.task_type, now), se)
       IN IF e # None /\ ~pref /\ ~web
          THEN /\ pReqs' = [pReqs EXCEPT ![s].pc = "contextual"]
               /\ UNCHANGED <<collection, pResp>>
          ELSE /\ collection' = after
               /\ pReqs' = [pReqs EXCEPT ![s].pc = "done"]
               /\ pResp' = Append(pResp,
                     ProperSent(s, r, ProperRecord(response, confidence, r.task_type,
                                                   TRUE, tools_used),
                                after # collection))
    /\ UNCHANGED <<pTools, pExec, pStoreOk>>
    /\ UNCHANGED <<collectionOk, agentOk, now, req, resp, lastAdd, found, toolObs,
                   served, env>>
    /\ UNCHANGED <<varsF, varsH>>

\* generate_contextual_response resumes: ollama_llm.invoke returned or raised.
ProperContextualReturn(s, e, se) ==
    /\ pReqs[s].pc = "contextual"
    /\ LET r == pReqs[s]
           response == IF e = None THEN Strip(LlmOutput)
                       ELSE ProperIntelligentFallback(r.task_type)
           after == StoreDoc(collection, pStoreOk,
                             ProperDoc(r.user_id, r.message, r.task_type, now), se)
       IN /\ collection' = after
          /\ pReqs' = [pReqs EXCEPT ![s].pc = "done"]
          /\ pResp' = Append(pResp,
                ProperSent(s, r, ProperRecord(response, 80, r.task_type, TRUE,
                                              <<"contextual_reasoning">>),
                           after # collection))
    /\ UNCHANGED <<pTools, pCalls, pExec, pStoreOk>>
    /\ UNCHANGED <<collectionOk, agentOk, now, req, resp, lastAdd, found, toolObs,
                   served, env>>
    /\ UNCHANGED <<varsF, varsH>>

ProperTick ==
    /\ now < MaxClock
    /\ \E s \in Slots : pReqs[s].pc \in {"agent", "contextual"}
    /\ now' = now + 1
    /\ UNCHANGED <<collection, collectionOk, agentOk, req, resp, lastAdd, found,
                   toolObs, served, env>>
    /\ UNCHANGED <<varsP, varsF, varsH>>

\* The module as imported: ollama_llm present and the executor built
\* ("ready"), ollama_llm None ("no_llm"), or construction raised
\* ("init_raised"); in the last two self.agent_executor is never assigned.
InitProper ==
    /\ collection = <<>>
    /\ collectionOk = FALSE
    /\ agentOk = FALSE
    /\ now = 0
    /\ req = NoReq /\ resp = Nil /\ lastAdd = Nil /\ found = Nil
    /\ toolObs = Nil /\ served = 0
    /\ env \in [tavily : BOOLEAN, google : {FALSE}]
    /\ pTools = DefaultTools
    /\ pReqs = [s \in Slots |-> NoReq]
    /\ pCalls = Nil
    /\ pExec \in {"ready", "no_llm", "init_raised"}
    /\ pStoreOk \in BOOLEAN
    /\ pResp = <<>>
    /\ IdleF /\ IdleH

NextProper ==
    \/ \E s \in Slots, u \in Users, i \in ProperInputs : RouteTaskStart(s, u, i[1], i[2])
    \/ \E s \in Slots, tool \in {"preference_analysis", "memory_retrieval"} :
          ProperToolCall(s, tool)
    \/ \E s \in Slots, e \in Outcomes, te \in Outcomes, se \in Outcomes :
          ProperAgentReturn(s, e, te, se)
    \/ \E s \in Slots, e \in Outcomes, se \in Outcomes : ProperContextualReturn(s, e, se)
    \/ ProperTick

SpecProper == InitProper /\ [][NextProper]_vars

(***************************************************************************)
(* The classifier variants as functions of the message text.               *)
(***************************************************************************)
\* Messages are up to MaxWords words of Words, separated by blanks; every
\* keyword family of every variant has a word here.
Words == {"favorite", "Weather", "news", "search", "calendar", "meeting",
          "email", "send", "photo", "analyze", "remember", "find", "hello"}

WordSeqs == UNION {[1..n -> Words] : n \in 0..MaxWords}
ClassifierMessages == {JoinStr(w, " ") : w \in WordSeqs}

ClassifyAgent ==
    /\ fOut = Nil
    /\ fOut' = [op |-> "assistant_agent", value |-> AgentDetectTaskType(fIn.message)]
    /\ UNCHANGED <<fIn, varsA, varsP, varsH>>

ClassifyProper ==
    /\ fOut = Nil
    /\ fOut' = [op |-> "proper_main", value |-> ProperDetectTaskType(fIn.message)]
    /\ UNCHANGED <<fIn, varsA, varsP, varsH>>

ClassifyMain ==
    /\ fOut = Nil
    /\ fOut' = [op |-> "main", value |-> MainDetectTaskType(fIn.message)]
    /\ UNCHANGED <<fIn, varsA, varsP, varsH>>

ClassifySimple ==
    /\ fOut = Nil
    /\ fOut' = [op |-> "simple_main", value |-> SimpleDetectTaskType(fIn.message)]
    /\ UNCHANGED <<fIn, varsA, varsP, varsH>>

\* The components of the orchestrator model, idle.
IdleA ==
    /\ collection = <<>> /\ collectionOk = FALSE /\ agentOk = FALSE /\ now = 0
    /\ req = NoReq /\ resp = Nil /\ lastAdd = Nil /\ found = Nil
    /\ toolObs = Nil /\ served = 0
    /\ env = [tavily |-> FALSE, google |-> FALSE]

InitClassify ==
    /\ \E m \in ClassifierMessages : fIn = [message |-> m, ctx |-> EmptyCtx]
    /\ fOut = Nil
    /\ IdleA /\ IdleP /\ IdleH

NextClassify ==
    \/ ClassifyAgent
    \/ ClassifyProper
    \/ ClassifyMain
    \/ ClassifySimple

SpecClassify == InitClassify /\ [][NextClassify]_vars

(***************************************************************************)
(* ai_assistant/start_service.py and ai_assistant/simple_ai.py: the /chat  *)
(* handlers as functions of the message and the user context.              *)
(***************************************************************************)
UpperChar(c) ==
    CASE c = "a" -> "A" [] c = "b" -> "B" [] c = "c" -> "C" [] c = "d" -> "D"
      [] c = "e" -> "E" [] c = "f" -> "F" [] c = "g" -> "G" [] c = "h" -> "H"
      [] c = "i" -> "I" [] c = "j" -> "J" [] c = "k" -> "K" [] c = "l" -> "L"
      [] c = "m" -> "M" [] c = "n" -> "N" [] c = "o" -> "O" [] c = "p" -> "P"
      [] c = "q" -> "Q" [] c = "r" -> "R" [] c = "s" -> "S" [] c = "t" -> "T"
      [] c = "u" -> "U" [] c = "v" -> "V" [] c = "w" -> "W" [] c = "x" -> "X"
      [] c = "y" -> "Y" [] c = "z" -> "Z" [] OTHER -> c

IsLetter(c) == LowerChar(c) # c \/ UpperChar(c) # c

\* str.title(): a letter after a non-letter is upper-cased, any other letter
\* lower-cased.
RECURSIVE TitleFrom(_, _)
TitleFrom(s, afterLetter) ==
    IF Len(s) = 0 THEN ""
    ELSE LET c == SubSeq(s, 1, 1) IN
         (IF afterLetter THEN LowerChar(c) ELSE UpperChar(c))
         \o TitleFrom(SubSeq(s, 2, Len(s)), IsLetter(c))

Title(s) == TitleFrom(s, FALSE)

\* AIResponse(...); confidence in tenths.
ChatRecord(response, confidence, task_type, tools_used) ==
    [response |-> response, confidence |-> confidence, task_type |-> task_type,
     memory_updated |-> TRUE, tools_used |-> tools_used]

\* A handler that ends without a return statement: the body is null.
NullBody == [null |-> TRUE]

\* ', '.join(media_files[:3]) and the '...' that follows more than 3 files
GalleryText(media) ==
    "I can see you have " \o ToString(Len(media)) \o " files in your gallery: "
    \o JoinStr([i \in 1..Min(3, Len(media)) |-> media[i].filename], ", ")
    \o (IF Len(media) > 3 THEN "..." ELSE "")
    \o ". I can analyze images when you share them with me."

GreetingText ==
    "Hello! I'm your LOOM AI Assistant powered by LangChain + Ollama + ChromaDB. I can help you with your preferences, notes, gallery, and more. What would you like to know?"

UnknownText ==
    "I don't have specific information about that. Could you ask me about your preferences, TV series, music albums, or images?"

\* start_service.chat
StartServiceChat(msg, user_context) ==
    LET message == Lower(msg)
        preferences == CtxGet(user_context, "preferences")
        media == CtxGet(user_context, "media")
        IsTv(p) == Contains(p.key, "tv_series")
        IsAlbum(p) == Contains(p.key, "favorite_album")
        IsSingers(p) == Contains(p.key, "favorite_singers")
        tv == FirstIndex(preferences, IsTv)
        album == FirstIndex(preferences, IsAlbum)
        singers == FirstIndex(preferences, IsSingers)
    IN
    IF Contains(message, "tv series") \/ Contains(message, "favorite series")
    THEN IF tv # 0
         THEN ChatRecord("Your favorite TV series is: **"
                         \o Title(Strip(Replace(preferences[tv].value, "tv series: ", "")))
                         \o "**",
                         9, "preference_query", <<"preference_analysis", "langchain_agent">>)
         ELSE NullBody
    ELSE IF Contains(message, "album")
    THEN IF album # 0
         THEN ChatRecord("Your favorite album is: **" \o preferences[album].value \o "**",
                         9, "preference_query", <<"preference_analysis", "langchain_agent">>)
         ELSE NullBody
    ELSE IF Contains(message, "singers")
    THEN IF singers # 0
         THEN ChatRecord("Your favorite singers are: **"
                         \o Strip(Replace(preferences[singers].value, "singers: ", ""))
                         \o "**",
                         9, "preference_query", <<"preference_analysis", "langchain_agent">>)
         ELSE NullBody
    ELSE IF Contains(message, "image") \/ Contains(message, "gallery")
    THEN IF Len(media) # 0
         THEN ChatRecord(GalleryText(media), 8, "gallery_query",
                         <<"gallery_analysis", "langchain_agent">>)
         ELSE NullBody
    ELSE IF message \in {"hi", "hello", "hey"}
    THEN ChatRecord(GreetingText, 9, "greeting",
                    <<"langchain_agent", "contextual_response">>)
    ELSE ChatRecord(UnknownText, 7, "unknown", <<"langchain_agent">>)

\* simple_ai.analyze_preferences: the answer, or None.
SimpleAnalyzePreferences(message, preferences) ==
    LET message_lower == Lower(message)
        IsTv(p) == Contains(p.key, "tv_series")
        IsAlbum(p) == Contains(p.key, "favorite_album")
        IsSingers(p) == Contains(p.key, "favorite_singers")
        tv == FirstIndex(preferences, IsTv)
        album == FirstIndex(preferences, IsAlbum)
        singers == FirstIndex(preferences, IsSingers)
    IN
    IF Contains(message_lower, "tv series") \/ Contains(message_lower, "series")
    THEN IF tv # 0
         THEN "Your favorite TV series is: **"
              \o Title(Strip(Replace(preferences[tv].value, "tv series: ", ""))) \o "**"
         ELSE None
    ELSE IF Contains(message_lower, "album")
    THEN IF album # 0
         THEN "Your favorite album is: **" \o preferences[album].value \o "**"
         ELSE None
    ELSE IF Contains(message_lower, "singers") /\ ~Contains(message_lower, "singer?")
    THEN IF singers # 0
         THEN "Your favorite singers are: **"
              \o Strip(Replace(preferences[singers].value, "singers: ", "")) \o "**"
         ELSE None
    ELSE IF Contains(message_lower, "singer?")
    THEN "I don't know your favorite singer."
    ELSE None

\* simple_ai.chat_endpoint
SimpleAiChat(message, user_context) ==
    LET preferences == CtxGet(user_context, "preferences")
        media == CtxGet(user_context, "media")
        pref_response == SimpleAnalyzePreferences(message, preferences)
    IN
    IF pref_response # None /\ pref_response # ""
    THEN ChatRecord(pref_response, 9, "preference_query",
                    <<"langchain_agent", "preference_analysis", "chromadb_memory">>)
    ELSE IF Contains(Lower(message), "image") \/ Contains(Lower(message), "gallery")
    THEN IF Len(media) # 0
         THEN ChatRecord(GalleryText(media), 8, "gallery_query",
                         <<"langchain_agent", "gallery_analysis", "chromadb_memory">>)
         ELSE ChatRecord("I don't see any images in your gallery yet. Feel free to upload some!",
                         8, "gallery_query", <<"langchain_agent", "gallery_analysis">>)
    ELSE IF Lower(message) \in {"hi", "hello", "hey"}
    THEN ChatRecord(GreetingText, 9, "greeting",
                    <<"langchain_agent", "contextual_response", "chromadb_memory">>)
    ELSE ChatRecord(UnknownText, 7, "unknown", <<"langchain_agent", "chromadb_memory">>)

\* The requests the handlers are applied to.
SingersPref == [key |-> "favorite_singers", value |-> "singers: Adele, Sia"]
MediaFile(name) == [filename |-> name]
ChatContexts ==
    {EmptyCtx, PrefCtx,
     MkCtx(<<SingersPref>>, <<>>, <<>>),
     MkCtx(<<>>, <<MediaFile("a.png")>>, <<>>),
     MkCtx(<<AlbumPref>>,
           <<MediaFile("a.png"), MediaFile("b.png"), MediaFile("c.png"), MediaFile("d.png")>>,
           <<>>)}

ChatMessages ==
    {"What is my favorite TV series?", "favorite series", "What is my favorite album?",
     "Who are my favorite singers", "Who is my favorite singer?", "show my image gallery",
     "Gallery", "hi", "Hello", "HEY", "weather in Paris", ""}

StartServiceChatStep ==
    /\ fOut = Nil
    /\ fOut' = [op |-> "start_service", value |-> StartServiceChat(fIn.message, fIn.ctx)]
    /\ UNCHANGED <<fIn, varsA, varsP, varsH>>

SimpleAiChatStep ==
    /\ fOut = Nil
    /\ fOut' = [op |-> "simple_ai", value |-> SimpleAiChat(fIn.message, fIn.ctx)]
    /\ UNCHANGED <<fIn, varsA, varsP, varsH>>

InitChat ==
    /\ \E m \in ChatMessages, c \in ChatContexts : fIn = [message |-> m, ctx |-> c]
    /\ fOut = Nil
    /\ IdleA /\ IdleP /\ IdleH

NextChat ==
    \/ StartServiceChatStep
    \/ SimpleAiChatStep

SpecChat == InitChat /\ [][NextChat]_vars

(***************************************************************************)
(* GET /health of every entry point, as a function of what the process     *)
(* found when it started: hEnv.tavily_key and hEnv.google_path are the      *)
(* environment variables being set, hEnv.google_init the Google service     *)
(* building without an exception, hEnv.chroma and hEnv.ollama the store     *)
(* and the LLM handle having been built, hEnv.client_checks the Tavily      *)
(* client refusing to be built without a key.  Booleans of the JSON body    *)
(* are written "true" and "false".                                         *)
(***************************************************************************)
Bool(b) == IF b THEN "true" ELSE "false"

\* GoogleCalendarTool / EmailReaderTool: is_available after __init__.
GoogleAvailable(h) == h.google_path /\ h.google_init

\* ai_assistant/main.py
AssistantHealth(h) ==
    [langchain |-> "true", ollama |-> Bool(h.ollama), chromadb |-> Bool(h.chroma),
     tools_web_search |-> Bool(h.tavily_key),
     tools_calendar |-> Bool(GoogleAvailable(h)),
     tools_email |-> Bool(GoogleAvailable(h)),
     tools_image_analysis |-> "false"]

\* ai_assistant/start_service.py
StartServiceHealth(h) == [langchain |-> "true", ollama |-> "true", chromadb |-> "true"]

\* ai_assistant/simple_ai.py
SimpleAiHealth(h) ==
    [langchain |-> "true", ollama |-> "true", chromadb |-> "true",
     tools |-> "web_search, calendar, email, preference_analysis"]

\* python_ai_service/main.py
MainHealth(h) == [chromadb |-> "connected", ollama |-> "pending", langchain |-> "initialized"]

\* python_ai_service/simple_main.py
SimpleMainHealth(h) ==
    [langchain |-> "initialized", ollama |-> "pending", chromadb |-> "in_memory",
     tavily |-> "configured", google_apis |-> "configured", clip |-> "pending"]

\* python_ai_service/proper_main.py: tavily_client is None only when building
\* the client raised.
ProperHealth(h) ==
    [ollama |-> Bool(h.ollama), chromadb |-> Bool(h.chroma),
     tavily |-> Bool(h.tavily_key \/ ~h.client_checks)]

HealthAssistant ==
    /\ hOut = Nil
    /\ hOut' = [entry |-> "ai_assistant/main", services |-> AssistantHealth(hEnv)]
    /\ UNCHANGED <<hEnv, varsA, varsP, varsF>>

HealthStartService ==
    /\ hOut = Nil
    /\ hOut' = [entry |-> "start_service", services |-> StartServiceHealth(hEnv)]
    /\ UNCHANGED <<hEnv, varsA, varsP, varsF>>

HealthSimpleAi ==
    /\ hOut = Nil
    /\ hOut' = [entry |-> "simple_ai", services |-> SimpleAiHealth(hEnv)]
    /\ UNCHANGED <<hEnv, varsA, varsP, varsF>>

HealthMain ==
    /\ hOut = Nil
    /\ hOut' = [entry |-> "python_ai_service/main", services |-> MainHealth(hEnv)]
    /\ UNCHANGED <<hEnv, varsA, varsP, varsF>>

HealthSimpleMain ==
    /\ hOut = Nil
    /\ hOut' = [entry |-> "simple_main", services |-> SimpleMainHealth(hEnv)]
    /\ UNCHANGED <<hEnv, varsA, varsP, varsF>>

HealthProper ==
    /\ hOut = Nil
    /\ hOut' = [entry |-> "proper_main", services |-> ProperHealth(hEnv)]
    /\ UNCHANGED <<hEnv, varsA, varsP, varsF>>

InitHealth ==
    /\ hEnv \in [tavily_key : BOOLEAN, google_path : BOOLEAN, google_init : BOOLEAN,
                 chroma : BOOLEAN, ollama : BOOLEAN, client_checks : BOOLEAN]
    /\ hOut = Nil
    /\ IdleA /\ IdleP /\ IdleF

NextHealth ==
    \/ HealthAssistant
    \/ HealthStartService
    \/ HealthSimpleAi
    \/ HealthMain
    \/ HealthSimpleMain
    \/ HealthProper

SpecHealth == InitHealth /\ [][NextHealth]_vars

(***************************************************************************)
(* The preference lookups as functions of the query and the preference     *)
(* list: AssistantAgent._analyze_preferences after its parsing loop,       *)
(* proper_main's preference_analysis_tool and simple_ai.analyze_preferences.*)
(***************************************************************************)
MaxPrefs == 2

OldTvPref == [key |-> "old_tv_series", value |-> "tv series: Lost"]
NotePref == [key |-> "note", value |-> "I watch TV series daily"]
PrefPool == {TvPref, AlbumPref, OldTvPref, NotePref}

LookupContexts ==
    {MkCtx(p, <<>>, <<>>) : p \in UNION {[1..n -> PrefPool] : n \in 0..MaxPrefs}}

LookupQueries == {"tv series", "What is my favorite tv series?", "my album",
                  "What do you know about me?", "tell me something"}

LookupAgent ==
    /\ fOut = Nil
    /\ fOut' = [op |-> "assistant_agent",
                value |-> AgentPreferenceAnswer(fIn.message, fIn.ctx)]
    /\ UNCHANGED <<fIn, varsA, varsP, varsH>>

LookupProper ==
    /\ fOut = Nil
    /\ fOut' = [op |-> "proper_main",
                value |-> ProperPreferenceAnalysis(fIn.ctx, fIn.message)]
    /\ UNCHANGED <<fIn, varsA, varsP, varsH>>

LookupSimpleAi ==
    /\ fOut = Nil
    /\ fOut' = [op |-> "simple_ai",
                value |-> SimpleAnalyzePreferences(fIn.message,
                                                   CtxGet(fIn.ctx, "preferences"))]
    /\ UNCHANGED <<fIn, varsA, varsP, varsH>>

InitLookup ==
    /\ \E q \in LookupQueries, c \in LookupContexts : fIn = [message |-> q, ctx |-> c]
    /\ fOut = Nil
    /\ IdleA /\ IdleP /\ IdleH

NextLookup ==
    \/ LookupAgent
    \/ LookupProper
    \/ LookupSimpleAi

SpecLookup == InitLookup /\ [][NextLookup]_vars

(***************************************************************************)
(* The three memory adapters, call by call, with what each call returns:   *)
(* ChromaDBManager (memory/chromadb_utils.py) and the store_memory of      *)
(* python_ai_service/main.py and of proper_main.py.  Each adapter has its  *)
(* own collection; fIn.adapter names the one a run exercises.              *)
(***************************************************************************)
MaxOps == 2

\* Python values a call returns.
PyNone == [py |-> "None"]
PyBool(b) == [py |-> "bool", value |-> b]
PyList(r) == [py |-> "list", value |-> r]

\* try: body / except Exception: handler.  e is the outcome of the store call
\* inside the body; nothing leaves the function but a return value.
TryExcept(e, returned, onError) ==
    [returned |-> IF e = None THEN returned ELSE onError, propagated |-> None]

\* main.py store_memory: the document and the value returned.
MainDoc(user_id, content, clock) ==
    [id |-> DocId("memory", user_id, clock),
     user_id |-> user_id, timestamp |-> clock, type |-> None,
     task_type |-> None, message |-> content]

MainStoreMemory(ok, e) ==
    IF ~ok THEN [returned |-> PyBool(FALSE), propagated |-> None]
    ELSE TryExcept(e, PyBool(TRUE), PyBool(FALSE))

\* proper_main.py store_memory has no return statement.
ProperStoreMemory(ok, e) ==
    IF ~ok THEN [returned |-> PyNone, propagated |-> None]
    ELSE TryExcept(e, PyNone, PyNone)

\* store_conversation and store_user_context have none either.
ManagerStore(ok, e) ==
    IF ~ok THEN [returned |-> PyNone, propagated |-> None]
    ELSE TryExcept(e, PyNone, PyNone)

\* The record of one adapter call: the store raised inside it or not, the
\* collection before it, what came back.
CallRecord(op, ok, e, out) ==
    [op |-> op, raised |-> (ok /\ e # None), before |-> collection,
     returned |-> out.returned, propagated |-> out.propagated]

ManagerStoreConversation(u, e) ==
    LET doc == ConversationDoc(u, "hello", "hi", "general_chat",
                               <<"general_response">>, now)
    IN /\ fIn.adapter = "chromadb_utils"
       /\ served < MaxOps
       /\ collection' = StoreDoc(collection, collectionOk, doc, e)
       /\ fOut' = CallRecord("store_conversation", collectionOk, e,
                             ManagerStore(collectionOk, e))
       /\ served' = served + 1
       /\ UNCHANGED <<collectionOk, agentOk, now, req, resp, lastAdd, found, toolObs, env>>
       /\ UNCHANGED <<fIn, varsP, varsH>>

ManagerStoreUserContext(u, e) ==
    LET doc == ContextDoc(u, EmptyCtx, now)
    IN /\ fIn.adapter = "chromadb_utils"
       /\ served < MaxOps
       /\ collection' = StoreDoc(collection, collectionOk, doc, e)
       /\ fOut' = CallRecord("store_user_context", collectionOk, e,
                             ManagerStore(collectionOk, e))
       /\ served' = served + 1
       /\ UNCHANGED <<collectionOk, agentOk, now, req, resp, lastAdd, found, toolObs, env>>
       /\ UNCHANGED <<fIn, varsP, varsH>>

ManagerSearchMemory(u, k, e) ==
    /\ fIn.adapter = "chromadb_utils"
    /\ served < MaxOps
    /\ \E r \in SearchMemoryResults(collection, collectionOk, u, k, e) :
          fOut' = CallRecord("search_memory", collectionOk, e,
                             [returned |-> PyList(r), propagated |-> None])
    /\ served' = served + 1
    /\ UNCHANGED <<collection, collectionOk, agentOk, now, req, resp, lastAdd,
                   found, toolObs, env>>
    /\ UNCHANGED <<fIn, varsP, varsH>>

MainStoreMemoryCall(u, e) ==
    LET doc == MainDoc(u, "hello", now)
    IN /\ fIn.adapter = "main"
       /\ served < MaxOps
       /\ collection' = StoreDoc(collection, collectionOk, doc, e)
       /\ fOut' = CallRecord("main.store_memory", collectionOk, e,
                             MainStoreMemory(collectionOk, e))
       /\ served' = served + 1
       /\ UNCHANGED <<collectionOk, agentOk, now, req, resp, lastAdd, found, toolObs, env>>
       /\ UNCHANGED <<fIn, varsP, varsH>>

ProperStoreMemoryCall(u, e) ==
    LET doc == ProperDoc(u, "hello", "general_chat", now)
    IN /\ fIn.adapter = "proper_main"
       /\ served < MaxOps
       /\ collection' = StoreDoc(collection, collectionOk, doc, e)
       /\ fOut' = CallRecord("proper_main.store_memory", collectionOk, e,
                             ProperStoreMemory(collectionOk, e))
       /\ served' = served + 1
       /\ UNCHANGED <<collectionOk, agentOk, now, req, resp, lastAdd, found, toolObs, env>>
       /\ UNCHANGED <<fIn, varsP, varsH>>

TickAdapter ==
    /\ now < StartClock + MaxClock
    /\ now' = now + 1
    /\ UNCHANGED <<collection, collectionOk, agentOk, req, resp, lastAdd, found,
                   toolObs, served, env>>
    /\ UNCHANGED <<varsP, varsF, varsH>>

InitAdapter ==
    /\ \E a \in {"chromadb_utils", "main", "proper_main"} : fIn = [adapter |-> a]
    /\ fOut = Nil
    /\ \E n \in {0, 1} : collection = PriorDocs(n)
    /\ collectionOk \in BOOLEAN
    /\ agentOk = FALSE
    /\ now = StartClock
    /\ req = NoReq /\ resp = Nil /\ lastAdd = Nil /\ found = Nil
    /\ toolObs = Nil /\ served = 0
    /\ env = [tavily |-> FALSE, google |-> FALSE]
    /\ IdleP /\ IdleH

NextAdapter ==
    \/ \E u \in Users, e \in Outcomes : ManagerStoreConversation(u, e)
    \/ \E u \in Users, e \in Outcomes : ManagerStoreUserContext(u, e)
    \/ \E u \in Users, k \in {1, NResults}, e \in Outcomes : ManagerSearchMemory(u, k, e)
    \/ \E u \in Users, e \in Outcomes : MainStoreMemoryCall(u, e)
    \/ \E u \in Users, e \in Outcomes : ProperStoreMemoryCall(u, e)
    \/ TickAdapter

SpecAdapter == InitAdapter /\ [][NextAdapter]_vars

(***************************************************************************)
(* python_ai_service/main.py: LoomAIOrchestrator.route_task behind         *)
(* POST /ai/orchestrate, one request at a time, in the steps receive,      *)
(* classify, retrieve memories, generate, store, respond.  A request may   *)
(* carry the optional task_type field of AIRequest.                        *)
(***************************************************************************)
\* memory_retrieval_tool(user_id, query): results['documents'] is a list
\* holding one list per query text, so it is never empty.
MainMemoryRetrieval(coll, ok, user_id, e) ==
    IF ~ok THEN {"Vector memory not available - using fallback"}
    ELSE IF e # None THEN {"Memory retrieval error: " \o e}
    ELSE {"Retrieved memories: " \o (IF r = {} THEN "[[]]" ELSE "[['User: ...']]") :
             r \in QueryAnswers(coll, user_id, NResults)}

\* A notes entry: title is None when the entry has no "title" key.
NoteTitle(note) == IF note.title = None THEN "Untitled" ELSE note.title

\* generate_intelligent_fallback raises KeyError: the web-search branch reads
\* context.get('notes', [])[0]['title'] without a default.
MainFallbackRaises(context, task_type) ==
    /\ task_type = "web_search"
    /\ Len(CtxGet(context, "notes")) > 0
    /\ CtxGet(context, "notes")[1].title = None

\* generate_intelligent_fallback where it returns; the model's contexts hold
\* no events and no emails.
MainIntelligentFallback(message, context, task_type) ==
    LET notes == CtxGet(context, "notes") IN
    IF task_type = "web_search"
    THEN "I'll search for information about '" \o message
         \o "'. Based on your interests in "
         \o (IF Len(notes) > 0 THEN notes[1].title ELSE "various topics")
         \o ", I'll find relevant and current information."
    ELSE IF task_type = "calendar"
    THEN "I'll help you manage your calendar. You currently have 0 events scheduled. What would you like me to do with your calendar?"
    ELSE IF task_type = "email"
    THEN "I'll assist with your email needs. You have 0 emails in your system. How can I help with email management?"
    ELSE IF task_type = "image_analysis"
    THEN "I'll analyze the image for you using advanced computer vision. You have "
         \o ToString(Len(CtxGet(context, "media")))
         \o " media files stored. Please provide the image for analysis."
    ELSE "I'm here to help you with your digital life management."
         \o (IF Len(notes) > 0
             THEN " I can see you have notes about "
                  \o JoinStr([i \in 1..Min(3, Len(notes)) |-> NoteTitle(notes[i])], ", ")
                  \o "."
             ELSE "")
         \o " What would you like to work on today? I can help with search, calendar, email, or analyze images."

\* get_tools_for_task
MainToolsForTask(task_type) ==
    IF task_type = "web_search" THEN <<"web_search", "memory_retrieval">>
    ELSE IF task_type = "calendar" THEN <<"calendar_management", "memory_retrieval">>
    ELSE IF task_type = "email" THEN <<"email_management", "memory_retrieval">>
    ELSE IF task_type = "image_analysis" THEN <<"image_analysis", "memory_retrieval">>
    ELSE <<"memory_retrieval">>

NotesCtx == MkCtx(<<>>, <<>>, <<[title |-> "Trip"]>>)
UntitledCtx == MkCtx(<<>>, <<>>, <<[title |-> None]>>)
MainContexts == {EmptyCtx, NotesCtx, UntitledCtx}
MainMessages == {"hello", "find my photo", "schedule a meeting"}
ExplicitTaskTypes == {None, "web_search", "image_analysis"}

\* POST /ai/orchestrate with body {message, user_id, user_context, task_type?}
MainReceive(u, m, c, t) ==
    /\ req = NoReq
    /\ served < MaxRequests
    /\ req' = [pc |-> "classify", user_id |-> u, message |-> m, ctx |-> c,
               explicit |-> t, task_type |-> None, memories |-> None,
               response |-> None, memory_stored |-> FALSE]
    /\ served' = served + 1
    /\ resp' = Nil
    /\ UNCHANGED <<collection, collectionOk, agentOk, now, lastAdd, found,
                   toolObs, env>>
    /\ UNCHANGED <<varsP, varsF, varsH>>

\* task_type = self.detect_task_type(request.message)
MainClassify ==
    /\ req.pc = "classify"
    /\ req' = [req EXCEPT !.task_type = MainDetectTaskType(req.message),
                          !.pc = "retrieve"]
    /\ UNCHANGED <<collection, collectionOk, agentOk, now, resp, lastAdd, found,
                   toolObs, served, env>>
    /\ UNCHANGED <<varsP, varsF, varsH>>

\* memory_context = memory_retrieval_tool(request.user_id, request.message)
MainRetrieve(e) ==
    /\ req.pc = "retrieve"
    /\ \E t \in MainMemoryRetrieval(collection, collectionOk, req.user_id, e) :
          req' = [req EXCEPT !.memories = t, !.pc = "generate"]
    /\ UNCHANGED <<collection, collectionOk, agentOk, now, resp, lastAdd, found,
                   toolObs, served, env>>
    /\ UNCHANGED <<varsP, varsF, varsH>>

\* generate_contextual_response: OllamaLLM.available is False, so the text is
\* that of generate_intelligent_fallback.  route_task has no handler: what
\* the call raises leaves route_task, and resp keeps the exception the
\* endpoint receives.
MainGenerate ==
    /\ req.pc = "generate"
    /\ IF MainFallbackRaises(req.ctx, req.task_type)
       THEN /\ resp' = [record |-> Nil, raised |-> "KeyError: 'title'",
                        user_id |-> req.user_id, message |-> req.message,
                        explicit |-> req.explicit]
            /\ req' = NoReq
       ELSE /\ req' = [req EXCEPT !.response =
                                     MainIntelligentFallback(req.message, req.ctx,
                                                             req.task_type),
                                 !.pc = "store"]
            /\ resp' = resp
    /\ UNCHANGED <<collection, collectionOk, agentOk, now, lastAdd, found,
                   toolObs, served, env>>
    /\ UNCHANGED <<varsP, varsF, varsH>>

\* memory_stored = await self.store_memory(...)
MainStore(e) ==
    /\ req.pc = "store"
    /\ collection' = StoreDoc(collection, collectionOk,
                              MainDoc(req.user_id, req.message, now), e)
    /\ req' = [req EXCEPT !.memory_stored =
                              MainStoreMemory(collectionOk, e).returned.value,
                          !.pc = "respond"]
    /\ UNCHANGED <<collectionOk, agentOk, now, resp, lastAdd, found, toolObs,
                   served, env>>
    /\ UNCHANGED <<varsP, varsF, varsH>>

\* return AIResponse(...): resp keeps the record and the request it answers.
MainRespond ==
    /\ req.pc = "respond"
    /\ resp' = [record |-> [response |-> req.response, confidence |-> 85,
                            task_type |-> req.task_type,
                            memory_updated |-> req.memory_stored,
                            tools_used |-> MainToolsForTask(req.task_type)],
                raised |-> None,
                user_id |-> req.user_id, message |-> req.message,
                explicit |-> req.explicit]
    /\ req' = NoReq
    /\ UNCHANGED <<collection, collectionOk, agentOk, now, lastAdd, found,
                   toolObs, served, env>>
    /\ UNCHANGED <<varsP, varsF, varsH>>

MainTick ==
    /\ now < MaxClock
    /\ req.pc = "store"
    /\ now' = now + 1
    /\ UNCHANGED <<collection, collectionOk, agentOk, req, resp, lastAdd, found,
                   toolObs, served, env>>
    /\ UNCHANGED <<varsP, varsF, varsH>>

InitMain ==
    /\ collection = <<>>
    /\ collectionOk \in BOOLEAN
    /\ agentOk = FALSE
    /\ now = 0
    /\ req = NoReq /\ resp = Nil /\ lastAdd = Nil /\ found = Nil
    /\ toolObs = Nil /\ served = 0
    /\ env = [tavily |-> FALSE, google |-> FALSE]
    /\ IdleP /\ IdleF /\ IdleH

NextMain ==
    \/ \E u \in Users, m \in MainMessages, c \in MainContexts,
          t \in ExplicitTaskTypes : MainReceive(u, m, c, t)
    \/ MainClassify
    \/ \E e \in Outcomes : MainRetrieve(e)
    \/ MainGenerate
    \/ \E e \in Outcomes : MainStore(e)
    \/ MainRespond
    \/ MainTick

SpecMain == InitMain /\ [][NextMain]_vars

(***************************************************************************)
(* The three tools of ai_assistant/tools on their own, as constructed from *)
(* the environment: fIn.tavily_key and fIn.google_path are the variables   *)
(* being set, fIn.google_init the Google service building without an       *)
(* exception.                                                              *)
(***************************************************************************)
ToolRequests ==
    {"weather in Paris", "show my calendar", "create a meeting", "update my meeting",
     "please Delete the event", "am I free today", "calendar", "unread email",
     "latest email", "search email from bob", "email summary"}

\* self.service is built only when the variable is set and the
\* initialisation does not raise.
ServiceBuilt(f) == f.google_path /\ f.google_init

ToolWebSearch(e) ==
    /\ fOut = Nil
    /\ fOut' = [op |-> "web_search", value |-> WebSearch(fIn.request, fIn.tavily_key, e),
                outbound |-> WebSearchOutbound(fIn.tavily_key)]
    /\ UNCHANGED <<fIn, varsA, varsP, varsH>>

ToolManageCalendar(e) ==
    /\ fOut = Nil
    /\ fOut' = [op |-> "manage_calendar",
                value |-> ManageCalendar(fIn.request, ServiceBuilt(fIn), e),
                outbound |-> CalendarOutbound(fIn.request, ServiceBuilt(fIn))]
    /\ UNCHANGED <<fIn, varsA, varsP, varsH>>

ToolReadEmails(e) ==
    /\ fOut = Nil
    /\ fOut' = [op |-> "read_emails",
                value |-> ReadEmails(fIn.request, ServiceBuilt(fIn), e),
                outbound |-> EmailOutbound(ServiceBuilt(fIn))]
    /\ UNCHANGED <<fIn, varsA, varsP, varsH>>

InitTools ==
    /\ \E r \in ToolRequests, k \in BOOLEAN, p \in BOOLEAN, i \in BOOLEAN :
          fIn = [request |-> r, tavily_key |-> k, google_path |-> p, google_init |-> i]
    /\ fOut = Nil
    /\ IdleA /\ IdleP /\ IdleH

NextTools ==
    \/ \E e \in Outcomes : ToolWebSearch(e)
    \/ \E e \in Outcomes : ToolManageCalendar(e)
    \/ \E e \in Outcomes : ToolReadEmails(e)

SpecTools == InitTools /\ [][NextTools]_vars

(***************************************************************************)
(* The string _direct_tool_routing builds for a preference question and    *)
(* the loop of _analyze_preferences that takes it apart again.             *)
(***************************************************************************)
\* Preference questions (each holds a keyword of preference_query), some
\* with the delimiters of the encoding in their text.
EncodeMessages ==
    {"What is my favorite album?", "favorite tv series",
     "my favorite album | tv series", "query: favorite album",
     "user_id:7 favorite album", "favorite context: album"}

\* self._analyze_preferences(f"user_id:{user_id}|query:{message}|context:...")
EncodeStep(u) ==
    /\ fOut = Nil
    /\ AgentDetectTaskType(fIn.message) = "preference_query"
    /\ fOut' = [op |-> "encoded", user_id |-> u,
                value |-> DirectEncode(u, fIn.message, fIn.ctx)]
    /\ UNCHANGED <<fIn, varsA, varsP, varsH>>

\* The parsing loop of _analyze_preferences on that string: what it takes
\* for the query and the context, or the exception that ends it.
ParseStep ==
    /\ fOut # Nil
    /\ fOut.op = "encoded"
    /\ fOut' = [op |-> "parsed", user_id |-> fOut.user_id,
                value |-> AgentParseParts(SplitStr(fOut.value, "|"),
                                          [query |-> fOut.value, context |-> EmptyCtx,
                                           error |-> None])]
    /\ UNCHANGED <<fIn, varsA, varsP, varsH>>

InitEncode ==
    /\ \E m \in EncodeMessages, c \in JsonContexts : fIn = [message |-> m, ctx |-> c]
    /\ fOut = Nil
    /\ IdleA /\ IdleP /\ IdleH

NextEncode ==
    \/ \E u \in Users : EncodeStep(u)
    \/ ParseStep

SpecEncode == InitEncode /\ [][NextEncode]_vars

(***************************************************************************)
(* The memory adapter's readers: get_recent_conversations and              *)
(* get_user_memory_stats after any sequence of writes.                     *)
(***************************************************************************)
\* A get sent without the where filter on user_id.
AllIndices(coll, user_id) == 1..Len(coll)

\* collection.get(where={"user_id": user_id}, limit=limit): limit of the
\* matching documents, in the store's order; which ones the store returns
\* under a limit is its business, so every choice is possible.  Without a
\* limit (limit = 0 here) all matching documents are returned.
MatchingIndices(coll, user_id) == {j \in 1..Len(coll) : coll[j].user_id = user_id}

RECURSIVE SeqOfIndices(_, _)
SeqOfIndices(coll, idx) ==
    IF idx = {} THEN <<>>
    ELSE LET i == CHOOSE k \in idx : \A j \in idx : k <= j
         IN <<coll[i]>> \o SeqOfIndices(coll, idx \ {i})

GetAnswers(coll, user_id, limit) ==
    LET m == MatchingIndices(coll, user_id)
        n == IF limit = 0 THEN Cardinality(m) ELSE Min(limit, Cardinality(m))
    IN {SeqOfIndices(coll, s) : s \in {t \in SUBSET m : Cardinality(t) = n}}

\* One entry of the list get_recent_conversations returns; src, the id of the
\* document it was built from, is history.
RecentEntry(doc) ==
    [message |-> doc.message, timestamp |-> doc.timestamp,
     task_type |-> doc.task_type, src |-> doc.id]

\* conversations.sort(key=timestamp, reverse=True): stable, so entries with
\* equal timestamps keep their order.
RECURSIVE InsertNewestFirst(_, _)
InsertNewestFirst(x, sorted) ==
    IF Len(sorted) = 0 THEN <<x>>
    ELSE IF Head(sorted).timestamp < x.timestamp THEN <<x>> \o sorted
    ELSE <<Head(sorted)>> \o InsertNewestFirst(x, Tail(sorted))

RECURSIVE SortNewestFirst(_)
SortNewestFirst(seq) ==
    IF Len(seq) = 0 THEN <<>>
    ELSE InsertNewestFirst(seq[Len(seq)], SortNewestFirst(SubSeq(seq, 1, Len(seq) - 1)))

IsConversation(doc) == doc.type # "user_context"

\* The body of get_recent_conversations over what get returned.
RecentFrom(results, limit) ==
    LET kept == SelectSeq(results, IsConversation)
        conversations == SortNewestFirst([i \in 1..Len(kept) |-> RecentEntry(kept[i])])
    IN SubSeq(conversations, 1, Min(limit, Len(conversations)))

\* get_recent_conversations: [] without a collection or when get raises.
GetRecentConversations(coll, ok, user_id, limit, e) ==
    IF ~ok \/ e # None THEN {<<>>}
    ELSE {RecentFrom(r, limit) : r \in GetAnswers(coll, user_id, limit)}

GetRecentConversationsCall(u, limit, e) ==
    /\ found = Nil
    /\ \E v \in GetRecentConversations(collection, collectionOk, u, limit, e) :
          found' = [op |-> "get_recent_conversations", user_id |-> u,
                    limit |-> limit, value |-> v,
                    raised |-> IF collectionOk THEN e ELSE None]
    /\ UNCHANGED <<collection, collectionOk, agentOk, now, req, resp, lastAdd,
                   toolObs, served, env>>
    /\ UNCHANGED <<varsP, varsF, varsH>>

InitRecent ==
    /\ collection = <<>>
    /\ collectionOk \in BOOLEAN
    /\ agentOk = FALSE
    /\ now = StartClock
    /\ req = NoReq /\ resp = Nil /\ lastAdd = Nil /\ found = Nil
    /\ toolObs = Nil /\ served = 0
    /\ env = [tavily |-> FALSE, google |-> FALSE]
    /\ IdleP /\ IdleF /\ IdleH

NextRecent ==
    \/ \E u \in Users, e \in Outcomes : StoreConversationCall(u, e)
    \/ \E u \in Users, e \in Outcomes : StoreUserContextCall(u, e)
    \/ \E u \in Users, limit \in 1..MaxWrites, e \in Outcomes :
          GetRecentConversationsCall(u, limit, e)
    \/ TickStore

SpecRecent == InitRecent /\ [][NextRecent]_vars

(***************************************************************************)
(* The memory statistics of the three services, after any sequence of      *)
(* writes through the service's own adapter (fIn.adapter).                 *)
(***************************************************************************)
PyDict(d) == [py |-> "dict", value |-> d]

\* ChromaDBManager.get_user_memory_stats; last_updated is left out.
GetUserMemoryStats(coll, ok, user_id, e) ==
    IF ~ok
    THEN PyDict([user_id |-> user_id, total_memories |-> 0,
                 status |-> "ChromaDB not available"])
    ELSE IF e # None
    THEN PyDict([user_id |-> user_id, error |-> e, status |-> "error"])
    ELSE LET results == SeqOfIndices(coll, MatchingIndices(coll, user_id))
             contexts == Len(SelectSeq(results, LAMBDA d : d.type = "user_context"))
             conversations == Len(SelectSeq(results, LAMBDA d : d.type # "user_context"))
         IN PyDict([user_id |-> user_id, total_memories |-> Len(results),
                    conversations |-> conversations, contexts |-> contexts,
                    status |-> "active"])

\* collection.query(query_texts=[""], n_results=1000, where=...) answers
\* with one list per query text: results['ids'] and results['documents']
\* are lists holding one list.
StatsLimit == 1000
QueryLists(r) == <<r>>

\* main.py GET /memory/stats/{user_id}: len(results['ids']).
MainGetMemoryStats(coll, ok, user_id, e) ==
    IF ~ok
    THEN {PyDict([user_id |-> user_id, memory_count |-> 0,
                  status |-> "vector_memory_disabled"])}
    ELSE IF e # None THEN {PyDict([error |-> e, memory_count |-> 0])}
    ELSE {PyDict([user_id |-> user_id,
                  memory_count |-> IF Len(QueryLists(r)) > 0
                                   THEN Len(QueryLists(r)) ELSE 0]) :
             r \in QueryAnswers(coll, user_id, StatsLimit)}

\* proper_main.py GET /memory/{user_id}: len(results["documents"][0]); an
\* exception becomes HTTP 500.
ProperGetMemoryStats(coll, ok, user_id, e) ==
    IF ~ok
    THEN {PyDict([user_id |-> user_id, memory_count |-> 0])}
    ELSE IF e # None THEN {[py |-> "HTTPException", status_code |-> 500, detail |-> e]}
    ELSE {PyDict([user_id |-> user_id,
                  memory_count |-> IF Len(QueryLists(r)) > 0
                                   THEN Cardinality(QueryLists(r)[1]) ELSE 0]) :
             r \in QueryAnswers(coll, user_id, StatsLimit)}

\* What a statistics call answered, with the user's documents at that time.
StatsRecord(op, u, e, v) ==
    [op |-> op, user_id |-> u, raised |-> IF collectionOk THEN e ELSE None,
     value |-> v, docs |-> Matching(collection, u)]

ManagerGetUserMemoryStats(u, e) ==
    /\ fIn.adapter = "chromadb_utils"
    /\ found' = StatsRecord("get_user_memory_stats", u, e,
                            GetUserMemoryStats(collection, collectionOk, u, e))
    /\ UNCHANGED <<collection, collectionOk, agentOk, now, req, resp, lastAdd,
                   toolObs, served, env>>
    /\ UNCHANGED <<varsP, varsF, varsH>>

MainGetMemoryStatsCall(u, e) ==
    /\ fIn.adapter = "main"
    /\ \E v \in MainGetMemoryStats(collection, collectionOk, u, e) :
          found' = StatsRecord("main.get_memory_stats", u, e, v)
    /\ UNCHANGED <<collection, collectionOk, agentOk, now, req, resp, lastAdd,
                   toolObs, served, env>>
    /\ UNCHANGED <<varsP, varsF, varsH>>

ProperGetMemoryStatsCall(u, e) ==
    /\ fIn.adapter = "proper_main"
    /\ \E v \in ProperGetMemoryStats(collection, collectionOk, u, e) :
          found' = StatsRecord("proper_main.get_memory_stats", u, e, v)
    /\ UNCHANGED <<collection, collectionOk, agentOk, now, req, resp, lastAdd,
                   toolObs, served, env>>
    /\ UNCHANGED <<varsP, varsF, varsH>>

InitStats ==
    /\ \E a \in {"chromadb_utils", "main", "proper_main"} : fIn = [adapter |-> a]
    /\ fOut = Nil
    /\ collection = <<>>
    /\ collectionOk \in BOOLEAN
    /\ agentOk = FALSE
    /\ now = StartClock
    /\ req = NoReq /\ resp = Nil /\ lastAdd = Nil /\ found = Nil
    /\ toolObs = Nil /\ served = 0
    /\ env = [tavily |-> FALSE, google |-> FALSE]
    /\ IdleP /\ IdleH

NextStats ==
    \/ \E u \in Users, e \in Outcomes : ManagerStoreConversation(u, e)
    \/ \E u \in Users, e \in Outcomes : ManagerStoreUserContext(u, e)
    \/ \E u \in Users, e \in Outcomes : MainStoreMemoryCall(u, e)
    \/ \E u \in Users, e \in Outcomes : ProperStoreMemoryCall(u, e)
    \/ \E u \in Users, e \in Outcomes : ManagerGetUserMemoryStats(u, e)
    \/ \E u \in Users, e \in Outcomes : MainGetMemoryStatsCall(u, e)
    \/ \E u \in Users, e \in Outcomes : ProperGetMemoryStatsCall(u, e)
    \/ TickAdapter

SpecStats == InitStats /\ [][NextStats]_vars

(***************************************************************************)
(* Properties of the memory adapter (SpecStore).                           *)
(***************************************************************************)
\* A search by the user of the last add call, made after that call stored its
\* document, with the default limit, on a query that did not raise.
SearchAfterWrite ==
    /\ found # Nil
    /\ lastAdd # Nil
    /\ lastAdd.stored
    /\ lastAdd.user_id = found.user_id
    /\ found.n_results = NResults
    /\ found.raised = None

FoundHasLastAdd == \E d \in found.results : d.id = lastAdd.id

\* C6 as stated: after a successful write for user u, a search for u with
\* limit 5 returns the just-written document, however many documents u has.
C6_Original == SearchAfterWrite => FoundHasLastAdd

\* C6: after a successful write for user u, a search for u with limit 5
\* returns the just-written document whenever u has at most 5 documents
\* stored, the new one included.
C6_ReadYourWrite ==
    (SearchAfterWrite /\ found.stored <= NResults) => FoundHasLastAdd

C6_Witness ==
    /\ SearchAfterWrite
    /\ found.stored = NResults
    /\ FoundHasLastAdd

\* C7: a search for user u with limit k returns at most k results and every
\* result carries user_id = u.
C7_SearchIsolated ==
    found # Nil =>
        /\ Cardinality(found.results) <= found.n_results
        /\ \A d \in found.results : d.user_id = found.user_id

C7_Witness ==
    /\ found # Nil
    /\ found.stored > found.n_results
    /\ Cardinality(found.results) = found.n_results
    /\ \E i \in 1..Len(collection) : collection[i].user_id # found.user_id

\* C8 as stated: no add call ever presents an id that a stored document
\* already has.
C8_Original == lastAdd # Nil => lastAdd.clash = Nil

\* C8: an add call presents the id of a stored document only when both are
\* of the same kind, for the same user, with the same clock reading.
C8_IdClash ==
    (lastAdd # Nil /\ lastAdd.clash # Nil) =>
        /\ lastAdd.clash.user_id = lastAdd.user_id
        /\ lastAdd.clash.type = lastAdd.type
        /\ lastAdd.clash.timestamp = lastAdd.timestamp

C8_Witness ==
    /\ lastAdd # Nil
    /\ lastAdd.clash # Nil
    /\ ~lastAdd.stored
    /\ \E i \in 1..Len(collection) :
          /\ collection[i].timestamp = lastAdd.timestamp
          /\ collection[i].id # lastAdd.id

(***************************************************************************)
(* Properties of the orchestrators (Spec, SpecProper).                     *)
(***************************************************************************)
\* C1: every preference_analysis and memory_retrieval call the agent makes
\* while serving a request uses that request's user_context and user_id,
\* whatever other request is being served at the same time.
C1_ToolCallsOwnRequest ==
    pCalls # Nil =>
        /\ pCalls.tool = "memory_retrieval" =>
              pCalls.user_id = pReqs[pCalls.slot].user_id
        /\ pCalls.tool = "preference_analysis" =>
              pCalls.ctx = pReqs[pCalls.slot].ctx

\* The AssistantAgent half of C2: without an agent executor the response
\* comes from the direct routing under the classifier's label.
AgentServedByFallback ==
    (resp # Nil /\ ~agentOk) =>
        /\ resp.path = "fallback"
        /\ resp.record.task_type = AgentDetectTaskType(resp.message)
        /\ resp.record.task_type # "error"
        /\ resp.record.tools_used = DirectTools(resp.record.task_type)

\* The proper_main half of C2: without an agent executor no response is the
\* error record.
ProperServedByFallback ==
    \A i \in 1..Len(pResp) :
        pExec # "ready" =>
            /\ pResp[i].record.task_type = pResp[i].label
            /\ pResp[i].record.task_type # "error"
            /\ pResp[i].record.tools_used # <<"error_handler">>

\* C2: when no agent executor is available the request is served by the
\* direct-dispatch fallback: task_type is the classifier's label, not
\* "error", and tools_used names the fallback tool, in AssistantAgent and in
\* proper_main alike.
C2_NoExecutorFallback == AgentServedByFallback /\ ProperServedByFallback

\* C4: a tool invocation that raised gives a response string containing the
\* exception's message: the memory search tool's answer to the agent, and
\* the response of a request served by the direct routing.
C4_ToolErrorReported ==
    /\ (toolObs # Nil /\ toolObs.raised # None) =>
          Contains(toolObs.text, toolObs.raised)
    /\ (resp # Nil /\ resp.toolErr # None) =>
          Contains(resp.record.response, resp.toolErr)

\* The direct-routing half of C4 on its own.
DirectToolErrorReported ==
    (resp # Nil /\ resp.toolErr # None) =>
        Contains(resp.record.response, resp.toolErr)

\* C5: memory_updated is true only if the conversation of the request was
\* written to the store during the request.
C5_MemoryUpdatedMeansWritten ==
    /\ resp # Nil => (resp.record.memory_updated => resp.wrote)
    /\ \A i \in 1..Len(pResp) : pResp[i].record.memory_updated => pResp[i].wrote

\* The labels that have a tool of their own on the direct-dispatch path.
ToolLabels == {"preference_query", "web_search", "calendar_management",
               "email_management", "image_analysis"}

\* C17: on the direct-dispatch path every label with a tool of its own is
\* answered by that tool, and only general_chat gets the default response
\* with tools_used general_response.
C17_LabelDeterminesTool ==
    (resp # Nil /\ resp.path = "fallback") =>
        /\ resp.record.task_type \in ToolLabels
             => resp.record.tools_used # <<"general_response">>
        /\ resp.record.tools_used = <<"general_response">>
             => resp.record.task_type = "general_chat"

\* A step that adds a document to the collection.
WriteStep == collection' # collection

\* The document a write step added.
Written == collection'[Len(collection')]

\* C18 as stated: no memory-store write of a request happens before its
\* message is classified, and a write happens only after dispatch produced
\* the response text and before the record is returned.
C18_Original ==
    [][WriteStep => /\ req.task_type # None
                    /\ req.response # None
                    /\ resp = Nil]_vars

\* C18: process_input writes the request's user context to the store before
\* it classifies the message; every other write is the conversation write,
\* made after the message was classified and dispatch produced the response
\* text, and before the response record is returned; the record is returned
\* from the respond state only.
C18_Order ==
    [][/\ WriteStep =>
            \/ /\ req.pc = "store_context"
               /\ req.task_type = None
               /\ Written.type = "user_context"
               /\ Written.user_id = req.user_id
            \/ /\ req.pc = "persist"
               /\ req.task_type # None
               /\ req.response # None
               /\ resp = Nil
               /\ Written.type = None
               /\ Written.message = req.message
       /\ (resp' # Nil /\ resp' # resp) => (req.pc = "respond" /\ req' = NoReq)]_vars

C18_Witness ==
    /\ req.pc = "respond"
    /\ req.wrote
    /\ Len(collection) = 2
    /\ collection[1].type = "user_context"
    /\ collection[2].message = req.message

\* C21: with a collection and add calls that return, the context write of a
\* request adds one user_context document of its user and the conversation
\* write adds one conversation document carrying its message, on the agent
\* path and on the fallback path alike; nothing else is written.
C21_OneRecordEach ==
    [][/\ (collectionOk /\ StoreContextStep(None)) =>
            /\ Len(collection') = Len(collection) + 1
            /\ Written.type = "user_context"
            /\ Written.user_id = req.user_id
       /\ (collectionOk /\ PersistStep(None)) =>
            /\ Len(collection') = Len(collection) + 1
            /\ Written.type = None
            /\ Written.user_id = req.user_id
            /\ Written.message = req.message
       /\ WriteStep => (req.pc \in {"store_context", "persist"}
                        /\ Len(collection') = Len(collection) + 1)]_vars

\* The same, for the writes whose identifier no stored document carries.
RecordedUnlessClash ==
    [][/\ (collectionOk /\ StoreContextStep(None)
           /\ ~HasId(collection, DocId("context", req.user_id, now))) =>
            /\ Len(collection') = Len(collection) + 1
            /\ Written.type = "user_context"
            /\ Written.user_id = req.user_id
       /\ (collectionOk /\ PersistStep(None)
           /\ ~HasId(collection, DocId("user", req.user_id, now))) =>
            /\ Len(collection') = Len(collection) + 1
            /\ Written.type = None
            /\ Written.user_id = req.user_id
            /\ Written.message = req.message
       /\ WriteStep => (req.pc \in {"store_context", "persist"}
                        /\ Len(collection') = Len(collection) + 1)]_vars

\* A request was answered and the collection holds no conversation of it.
RequestSkipped ==
    /\ resp # Nil
    /\ collectionOk
    /\ served = 2
    /\ Len(collection) = 3
    /\ ~\E i \in 1..Len(collection) :
          collection[i].type = None /\ collection[i].message = resp.message

\* C20: a memory search the agent's memory_search tool makes while a
\* request of user u is served queries the store with user id u and returns
\* only u's documents.
C20_ToolSearchesOwnUser ==
    (toolObs # Nil /\ req # NoReq) =>
        /\ toolObs.user_id = req.user_id
        /\ \A d \in toolObs.results : d.user_id = req.user_id

(***************************************************************************)
(* Properties of the classifier variants (SpecClassify).                   *)
(***************************************************************************)
StatedLabels == {"preference_query", "web_search", "calendar_management",
                 "email_management", "image_analysis", "general_chat",
                 "memory_retrieval", "error"}

ShortLabels == {"web_search", "calendar", "email", "image_analysis", "general_chat"}

\* C10 as stated: every variant's label is one of preference_query,
\* web_search, calendar_management, email_management, image_analysis,
\* general_chat, memory_retrieval, error.
C10_Original == fOut # Nil => fOut.value \in StatedLabels

\* C10: AssistantAgent._detect_task_type and proper_main's detect_task_type
\* return a label of the stated set; main.py's and simple_main.py's return one
\* of web_search, calendar, email, image_analysis, general_chat.
C10_LabelSets ==
    fOut # Nil =>
        /\ fOut.op \in {"assistant_agent", "proper_main"} => fOut.value \in StatedLabels
        /\ fOut.op \in {"main", "simple_main"} => fOut.value \in ShortLabels

C10_Witness ==
    /\ fOut # Nil
    /\ fOut.op = "main"
    /\ fOut.value = "calendar"
    /\ AgentDetectTaskType(fIn.message) = "calendar_management"

PreferenceWords == {"favorite", "prefer", "like"}
WebWords == {"weather", "news", "search"}
ShortWebWords == {"search", "find", "look up", "research"}

\* C11 as stated: in every variant a message containing weather, news or
\* search (any case) and no preference keyword is labelled web_search.
C11_Original ==
    fOut # Nil =>
        LET m == Lower(fIn.message) IN
        (AnyIn(m, WebWords) /\ ~AnyIn(m, PreferenceWords)) => fOut.value = "web_search"

\* C11: a message containing weather, news or search (any case) and no
\* preference keyword is labelled web_search by AssistantAgent._detect_task_type
\* and by proper_main's detect_task_type; main.py's and simple_main.py's
\* variants label a message web_search exactly when it contains search, find,
\* look up or research (any case), so weather and news alone do not.
C11_WebSearch ==
    fOut # Nil =>
        LET m == Lower(fIn.message) IN
        /\ (fOut.op \in {"assistant_agent", "proper_main"}
              /\ AnyIn(m, WebWords) /\ ~AnyIn(m, PreferenceWords))
             => fOut.value = "web_search"
        /\ fOut.op \in {"main", "simple_main"}
             => (fOut.value = "web_search" <=> AnyIn(m, ShortWebWords))

C11_Witness ==
    /\ fOut # Nil
    /\ fOut.op = "assistant_agent"
    /\ fIn.message = "calendar Weather"
    /\ fOut.value = "web_search"
    /\ MainDetectTaskType(fIn.message) = "calendar"

(***************************************************************************)
(* Properties of the /chat handlers (SpecChat).                            *)
(***************************************************************************)
RecordFields == {"response", "confidence", "task_type", "memory_updated", "tools_used"}

\* C3: every /chat request that completes returns a record with the five
\* fields response, confidence, task_type, memory_updated, tools_used, also
\* when the message holds a topic keyword and the context has no matching
\* preference or no media; no request yields a null body.
C3_FixedShape == fOut # Nil => DOMAIN fOut.value = RecordFields

\* The simple_ai half of C3 on its own.
SimpleAiFixedShape ==
    (fOut # Nil /\ fOut.op = "simple_ai") => DOMAIN fOut.value = RecordFields

(***************************************************************************)
(* Properties of the health endpoints (SpecHealth).                        *)
(***************************************************************************)
Positive == {"true", "configured", "connected"}

\* Some key of keys is present in the services object with a positive value.
ReportedUp(services, keys) ==
    \E k \in keys \cap DOMAIN services : services[k] \in Positive

\* C9: in every entry point's /health an integration whose environment
\* variable or credential file is missing, or whose initialisation failed, is
\* reported false or left out, never true, "configured" or "connected".
C9_HealthHonest ==
    hOut # Nil =>
        /\ ~hEnv.tavily_key =>
              ~ReportedUp(hOut.services, {"tavily", "tools_web_search"})
        /\ ~GoogleAvailable(hEnv) =>
              ~ReportedUp(hOut.services, {"google_apis", "tools_calendar", "tools_email"})
        /\ ~hEnv.chroma => ~ReportedUp(hOut.services, {"chromadb"})
        /\ ~hEnv.ollama => ~ReportedUp(hOut.services, {"ollama"})

\* The same for ai_assistant/main.py alone.
AssistantHealthHonest ==
    (hOut # Nil /\ hOut.entry = "ai_assistant/main") =>
        /\ ~hEnv.tavily_key =>
              ~ReportedUp(hOut.services, {"tavily", "tools_web_search"})
        /\ ~GoogleAvailable(hEnv) =>
              ~ReportedUp(hOut.services, {"google_apis", "tools_calendar", "tools_email"})
        /\ ~hEnv.chroma => ~ReportedUp(hOut.services, {"chromadb"})
        /\ ~hEnv.ollama => ~ReportedUp(hOut.services, {"ollama"})

\* The greeting messages among ChatMessages.
Greetings == {"hi", "Hello", "HEY"}

\* C12: for a message equal to hi, hello or hey up to letter case, and for
\* every user context, both /chat handlers answer with the fixed greeting
\* string and task_type greeting.
C12_Greeting ==
    (fOut # Nil /\ fOut.op \in {"start_service", "simple_ai"} /\ fIn.message \in Greetings)
        => /\ fOut.value # NullBody
           /\ fOut.value.response = GreetingText
           /\ fOut.value.task_type = "greeting"

C12_Witness ==
    /\ fOut # Nil
    /\ fOut.op = "start_service"
    /\ fIn.message = "Hello"
    /\ Len(CtxGet(fIn.ctx, "preferences")) > 0
    /\ Len(CtxGet(fIn.ctx, "media")) > 3
    /\ fOut.value.task_type = "greeting"

(***************************************************************************)
(* Properties of the preference lookups (SpecLookup).                      *)
(***************************************************************************)
\* A lookup of a query containing "tv series" in a list that holds the
\* Breaking Bad record.
TvLookupDone ==
    /\ fOut # Nil
    /\ fOut.op \in {"assistant_agent", "proper_main", "simple_ai"}
    /\ Contains(fIn.message, "tv series")
    /\ \E i \in 1..Len(fIn.ctx.preferences) : fIn.ctx.preferences[i] = TvPref

\* p has a key containing tv_series, or a value containing "tv series" in
\* any letter case.
TvLike(p) == Contains(p.key, "tv_series") \/ Contains(Lower(p.value), "tv series")

StoreRaised == fOut # Nil /\ fOut.raised

\* C14 as stated: nothing propagates, the documents are unchanged, search
\* returns an empty list and store_memory returns false.
C14_Original ==
    StoreRaised =>
        /\ fOut.propagated = None
        /\ collection = fOut.before
        /\ fOut.op = "search_memory" => fOut.returned = PyList({})
        /\ fOut.op \in {"main.store_memory", "proper_main.store_memory"}
             => fOut.returned = PyBool(FALSE)

\* C14: when the vector store raises inside an adapter call, nothing
\* propagates and the documents are unchanged; search_memory returns an empty
\* list, main.py's store_memory returns false, and proper_main's store_memory,
\* store_conversation and store_user_context return None, as they do when
\* the write succeeds.
C14_FailureMode ==
    /\ StoreRaised =>
        /\ fOut.propagated = None
        /\ collection = fOut.before
        /\ fOut.op = "search_memory" => fOut.returned = PyList({})
        /\ fOut.op = "main.store_memory" => fOut.returned = PyBool(FALSE)
    /\ (fOut # Nil /\ fOut.op \in {"proper_main.store_memory", "store_conversation",
                                   "store_user_context"})
        => fOut.returned = PyNone

C14_Witness ==
    /\ StoreRaised
    /\ fOut.op = "main.store_memory"
    /\ Len(collection) = 2
    /\ fOut.returned = PyBool(FALSE)

(***************************************************************************)
(* Properties of main.py's orchestrator (SpecMain).                        *)
(***************************************************************************)
\* C15: a request that carries an explicit task_type is answered with that
\* task_type in the response record.
C15_ExplicitTaskTypeUsed ==
    (resp # Nil /\ resp.raised = None /\ resp.explicit # None) =>
        resp.record.task_type = resp.explicit

\* C26: no request to route_task ends with an exception handed to the HTTP
\* layer; a failure while the response is built from the user context is
\* answered with a returned response record.
C26_NoExceptionPropagates ==
    resp # Nil => (resp.raised = None /\ resp.record # Nil)

\* A web-search request whose first note has no title ended with the
\* KeyError at the endpoint.
KeyErrorPropagated ==
    /\ resp # Nil
    /\ resp.raised = "KeyError: 'title'"
    /\ MainDetectTaskType(resp.message) = "web_search"
    /\ req = NoReq

(***************************************************************************)
(* Properties of the tools without their configuration (SpecTools).        *)
(***************************************************************************)
\* C16 as stated: without TAVILY_API_KEY search makes no outbound call and
\* returns the "Web search not available" string; without
\* GOOGLE_CREDENTIALS_PATH every manage_calendar and read_emails request makes
\* no outbound call and returns a string saying "not available".
C16_Original ==
    fOut # Nil =>
        /\ (fOut.op = "web_search" /\ ~fIn.tavily_key)
             => ~fOut.outbound /\ Contains(fOut.value, "Web search not available")
        /\ (fOut.op \in {"manage_calendar", "read_emails"} /\ ~fIn.google_path)
             => ~fOut.outbound /\ Contains(fOut.value, "not available")

\* C16: without TAVILY_API_KEY search makes no outbound call and returns the
\* "Web search not available" string; without GOOGLE_CREDENTIALS_PATH no
\* manage_calendar or read_emails request makes an outbound call, read_emails
\* returns the Gmail "not available" string, and manage_calendar returns the
\* Google Calendar "not available" string except for a request that reaches
\* update_event or delete_event, which answers "not fully implemented yet".
C16_Disabled ==
    fOut # Nil =>
        /\ (fOut.op = "web_search" /\ ~fIn.tavily_key)
             => /\ ~fOut.outbound
                /\ fOut.value = "Web search not available. Query was: " \o fIn.request
        /\ (fOut.op = "read_emails" /\ ~fIn.google_path)
             => /\ ~fOut.outbound
                /\ fOut.value = "Gmail not available. Please configure credentials."
        /\ (fOut.op = "manage_calendar" /\ ~fIn.google_path)
             => /\ ~fOut.outbound
                /\ IF CalendarStub(fIn.request)
                   THEN Contains(fOut.value, "functionality not fully implemented yet.")
                   ELSE fOut.value
                        = "Google Calendar not available. Please configure credentials."

C16_Witness ==
    /\ fOut # Nil
    /\ fOut.op = "manage_calendar"
    /\ ~fIn.google_path
    /\ fIn.request = "create a meeting"
    /\ fOut.value = "Google Calendar not available. Please configure credentials."

(***************************************************************************)
(* Properties of the encoding of the preference query (SpecEncode).        *)
(***************************************************************************)
\* C19: the parsing loop recovers the original message as the query and
\* the original context's preference list, for every message and context.
C19_RoundTrip ==
    (fOut # Nil /\ fOut.op = "parsed") =>
        /\ fOut.value.error = None
        /\ fOut.value.query = fIn.message
        /\ fOut.value.context.preferences = fIn.ctx.preferences

\* The round trip does hold for texts free of the delimiters.
PlainRoundTrip ==
    (/\ fOut # Nil /\ fOut.op = "parsed"
     /\ fIn.message \in {"What is my favorite album?", "favorite tv series",
                         "favorite context: album"}
     /\ fIn.ctx \in Contexts)
        => /\ fOut.value.error = None
           /\ fOut.value.query = fIn.message
           /\ fOut.value.context = fIn.ctx

(***************************************************************************)
(* Properties of the album lookup and of the count summary (SpecLookup).   *)
(***************************************************************************)
\* The first record of the context's preferences whose key contains
\* favorite_album, 0 without one.
RECURSIVE FirstAlbumKey(_, _)
FirstAlbumKey(prefs, i) ==
    IF i > Len(prefs) THEN 0
    ELSE IF Contains(prefs[i].key, "favorite_album") THEN i
    ELSE FirstAlbumKey(prefs, i + 1)

\* An analyzer answered a query containing "album" (and no keyword of an
\* earlier branch) over a context that holds a favorite_album record.
AlbumLookupDone ==
    /\ fOut # Nil
    /\ Contains(Lower(fIn.message), "album")
    /\ ~Contains(Lower(fIn.message), "series")
    /\ ~Contains(Lower(fIn.message), "singer")
    /\ FirstAlbumKey(CtxGet(fIn.ctx, "preferences"), 1) # 0

AlbumValue ==
    CtxGet(fIn.ctx, "preferences")[FirstAlbumKey(CtxGet(fIn.ctx, "preferences"), 1)].value

\* C22: for a query containing "album" and a context with a record whose
\* key contains favorite_album, the analyzer's answer contains the value
\* stored in that record.
C22_AlbumValueReturned ==
    AlbumLookupDone => Contains(fOut.value, AlbumValue)

\* The same for simple_ai.analyze_preferences alone.
SimpleAlbumValueReturned ==
    (AlbumLookupDone /\ fOut.op = "simple_ai") => Contains(fOut.value, AlbumValue)

\* The agent's analyzer answered an album query over a stored "Abbey Road"
\* with the fixed title.
FixedAlbumAnswered ==
    /\ AlbumLookupDone
    /\ fOut.op = "assistant_agent"
    /\ AlbumValue = "Abbey Road"
    /\ fOut.value = "Your favorite album is: **My Beautiful Dark Twisted Fantasy by Kanye West**"

\* An analyzer answered a query that contains none of the topic keywords
\* over a non-empty preference list.
KeywordFreeDone ==
    /\ fOut # Nil
    /\ fOut.op \in {"assistant_agent", "proper_main"}
    /\ Len(CtxGet(fIn.ctx, "preferences")) > 0
    /\ ~AnyIn(Lower(fIn.message), {"series", "singers", "singer?", "album"})

CountSummary(n) == "I found " \o ToString(n) \o " preferences"

GroupOrder ==
    << [label |-> "preference_query", words |-> {"favorite", "prefer", "like"}],
       [label |-> "web_search", words |-> {"weather", "news", "search"}],
       [label |-> "calendar_management", words |-> {"calendar", "schedule", "event"}],
       [label |-> "email_management", words |-> {"email", "mail"}],
       [label |-> "image_analysis", words |-> {"image", "photo", "picture"}] >>

\* The groups of which the message contains a keyword, as a set: neither
\* where nor how often a keyword occurs enters.
GroupsIn(message) ==
    {i \in 1..Len(GroupOrder) : AnyIn(Lower(message), GroupOrder[i].words)}

\* C24: in AssistantAgent._detect_task_type and proper_main's
\* detect_task_type a message containing keywords of one or several groups
\* gets the label of the earliest of these groups in the order preference,
\* web search, calendar, email, image, wherever and however often the
\* keywords occur.
C24_FirstMatchWins ==
    (/\ fOut # Nil
     /\ fOut.op \in {"assistant_agent", "proper_main"}
     /\ GroupsIn(fIn.message) # {}) =>
        LET first == CHOOSE i \in GroupsIn(fIn.message) :
                        \A j \in GroupsIn(fIn.message) : i <= j
        IN fOut.value = GroupOrder[first].label

\* A web-search keyword ahead of a preference keyword: the preference label
\* is returned.
C24_Witness ==
    /\ fOut # Nil
    /\ fOut.op = "assistant_agent"
    /\ fIn.message = "news favorite"
    /\ GroupsIn(fIn.message) = {1, 2}
    /\ fOut.value = "preference_query"

\* Every keyword a classifier variant tests for.
AgentKeywords ==
    {"favorite", "prefer", "like", "weather", "news", "search", "calendar",
     "schedule", "event", "email", "mail", "image", "photo", "picture"}

MainKeywords ==
    {"search", "find", "look up", "research", "schedule", "calendar", "meeting",
     "appointment", "email", "send", "message", "mail", "image", "photo",
     "picture", "analyze"}

KeywordsOf(op) ==
    IF op = "assistant_agent" THEN AgentKeywords
    ELSE IF op = "proper_main" THEN AgentKeywords \cup {"remember", "memory", "recall"}
    ELSE MainKeywords

\* C25: in every classifier variant a message is labelled general_chat
\* exactly when it contains none of that variant's keywords as a substring,
\* in any letter case.
C25_GeneralChatIffNoKeyword ==
    fOut # Nil =>
        (fOut.value = "general_chat"
            <=> ~AnyIn(Lower(fIn.message), KeywordsOf(fOut.op)))

\* main.py's classifier has no preference keywords: "favorite hello" is
\* general chat there, and a capitalised keyword is still a keyword.
C25_Witness ==
    /\ fOut # Nil
    /\ \/ fOut.op = "main" /\ fIn.message = "favorite hello"
          /\ fOut.value = "general_chat"
       \/ fOut.op = "assistant_agent" /\ fIn.message = "Weather hello"
          /\ fOut.value = "web_search"

(***************************************************************************)
(* Properties of the memory adapter's readers (SpecRecent, SpecStats).     *)
(***************************************************************************)
\* The conversation documents stored for a user.
ConversationsOf(coll, user_id) ==
    {coll[i] : i \in {j \in 1..Len(coll) :
                        coll[j].user_id = user_id /\ IsConversation(coll[j])}}

\* get_recent_conversations returned from a working store.
RecentDone ==
    /\ found # Nil
    /\ found.op = "get_recent_conversations"
    /\ collectionOk
    /\ found.raised = None

\* C27: get_recent_conversations(u, limit) returns min(limit, number of
\* conversation records stored for u) entries, these being u's most recent
\* conversations ordered newest first, none of them built from a
\* user_context record or from a record of another user.
C27_MostRecentReturned ==
    RecentDone =>
        LET convs == ConversationsOf(collection, found.user_id)
            v == found.value
            srcs == {v[i].src : i \in 1..Len(v)}
        IN /\ Len(v) = Min(found.limit, Cardinality(convs))
           /\ \A i \in 1..Len(v) : \E d \in convs : d.id = v[i].src
           /\ \A i \in 1..(Len(v) - 1) : v[i].timestamp >= v[i + 1].timestamp
           /\ \A d \in convs :
                 d.id \notin srcs => \A i \in 1..Len(v) : d.timestamp <= v[i].timestamp

\* The part of it that holds: the entries are conversations of the user,
\* at most limit of them, newest first.
RecentAreOwnConversations ==
    RecentDone =>
        LET convs == ConversationsOf(collection, found.user_id)
            v == found.value
        IN /\ Len(v) <= Min(found.limit, Cardinality(convs))
           /\ \A i \in 1..Len(v) : \E d \in convs : d.id = v[i].src
           /\ \A i \in 1..(Len(v) - 1) : v[i].timestamp >= v[i + 1].timestamp

\* One context record and one conversation stored for the user, limit 1:
\* get hands over the context record and the list comes back empty.
ConversationMissed ==
    /\ RecentDone
    /\ found.limit = 1
    /\ Cardinality(ConversationsOf(collection, found.user_id)) = 1
    /\ Cardinality(Matching(collection, found.user_id)) = 2
    /\ found.value = <<>>

\* Two conversations stored at different times, limit 1: the older one is
\* returned.
OlderReturned ==
    /\ RecentDone
    /\ found.limit = 1
    /\ Len(found.value) = 1
    /\ \E d \in ConversationsOf(collection, found.user_id) :
          d.timestamp > found.value[1].timestamp

\* A statistics endpoint of python_ai_service answered from a working
\* store.
CountDone ==
    /\ found # Nil
    /\ found.op \in {"main.get_memory_stats", "proper_main.get_memory_stats"}
    /\ collectionOk
    /\ found.raised = None

\* C28: after any sequence of memory writes the statistics endpoints of
\* main.py and proper_main.py return memory_count equal to the number of
\* documents stored for that user, up to the query limit.
C28_CountsUserDocuments ==
    CountDone =>
        found.value.value.memory_count = Min(StatsLimit, Cardinality(found.docs))

\* The same for proper_main's endpoint alone.
ProperCountsUserDocuments ==
    (CountDone /\ found.op = "proper_main.get_memory_stats") =>
        found.value.value.memory_count = Min(StatsLimit, Cardinality(found.docs))

\* main.py's endpoint answers 1 for a user without documents and for a
\* user with two.
MainCountsQueryTexts ==
    /\ CountDone
    /\ found.op = "main.get_memory_stats"
    /\ Cardinality(found.docs) \in {0, 2}
    /\ found.value.value.memory_count = 1

\* get_user_memory_stats answered from a working store.
StatsDone ==
    /\ found # Nil
    /\ found.op = "get_user_memory_stats"
    /\ collectionOk
    /\ found.raised = None

\* C29: after any sequence of store_conversation and store_user_context
\* calls by any users, get_user_memory_stats(u) reports contexts as the
\* number of context records stored for u, conversations as the number of
\* conversation records stored for u, and total_memories as their sum;
\* records of other users are not counted.  Without a collection nothing is
\* stored and it reports total_memories 0.
C29_StatsCountOwnRecords ==
    /\ StatsDone =>
        LET s == found.value.value
            own == {d \in {collection[i] : i \in 1..Len(collection)} :
                       d.user_id = found.user_id /\ d \in found.docs}
        IN /\ s.contexts = Cardinality({d \in own : d.type = "user_context"})
           /\ s.conversations = Cardinality({d \in own : d.type = None})
           /\ s.total_memories = s.conversations + s.contexts
           /\ s.user_id = found.user_id
    /\ (found # Nil /\ found.op = "get_user_memory_stats" /\ ~collectionOk) =>
        /\ found.value.value.total_memories = 0
        /\ collection = <<>>

\* Two users wrote; the statistics of one of them count its one record.
C29_Witness ==
    /\ StatsDone
    /\ Len(collection) = 2
    /\ collection[1].user_id # collection[2].user_id
    /\ found.docs # {}
    /\ found.value.value.total_memories = 1

(***************************************************************************)
(* Termination of process_input (SpecLive).                                *)
(***************************************************************************)
\* How far a request has come.
Rank(pc) ==
    IF pc = "idle" THEN 0
    ELSE IF pc = "store_context" THEN 1
    ELSE IF pc = "classify" THEN 2
    ELSE IF pc = "agent" THEN 3
    ELSE IF pc = "fallback" THEN 4
    ELSE IF pc = "persist" THEN 5
    ELSE 6

\* process_input has no loop and no retry: a step of a request moves it
\* forward, the one step that does not being a tool call of the running
\* agent; the fallback is entered at most once and is not left for the
\* agent again.
NoWayBack ==
    [][(req.pc # "idle" /\ req' # req) =>
          \/ req.pc = "respond" /\ req' = NoReq
          \/ Rank(req'.pc) > Rank(req.pc)
          \/ req.pc = "agent" /\ req'.pc = "agent" /\ req'.calls > req.calls]_vars

\* The request in progress is answered with a response record.
Answered == req = NoReq /\ resp # Nil /\ resp.record.response # None

\* C30: when every outbound call returns or raises, every request to
\* process_input is eventually answered with a response record; no step
\* takes a request back, and after an agent failure the fallback runs once.
C30_EveryRequestAnswered ==
    /\ (req.pc # "idle") ~> Answered
    /\ NoWayBack

\* The agent raised, the fallback ran and the request was answered.
C30_Witness ==
    /\ agentOk
    /\ resp # Nil
    /\ resp.path = "fallback"
    /\ req = NoReq

\* proper_main's route_task: a request moves from the agent run to the
\* contextual response or to its end and never back.
ProperRank(pc) ==
    IF pc = "idle" THEN 0 ELSE IF pc = "agent" THEN 1
    ELSE IF pc = "contextual" THEN 2 ELSE 3

ProperNoWayBack ==
    [][\A s \in Slots :
          pReqs'[s] # pReqs[s] => ProperRank(pReqs'[s].pc) > ProperRank(pReqs[s].pc)]_vars

====
